---- MODULE Spec2Model ----
(***************************************************************************)
(* Model of the strategy-workbench signal engine: the five strategy        *)
(* evaluators (api/strategies), the resonance aggregator                   *)
(* (api/engine/resonance.py) and the backtest simulator                    *)
(* (api/engine/backtest.py).                                               *)
(*                                                                         *)
(* Conventions                                                             *)
(*  - Python lists are TLA+ sequences; a Python index k is position k+1.   *)
(*  - Candle prices are whole numbers.  Every derived price (a percentage  *)
(*    stop, a moving average, a mean entry price) is an exact rational     *)
(*    <<n, d>> in lowest terms with d > 0, so the float expressions of the *)
(*    source are evaluated without rounding.                               *)
(*  - Money (capital, position_size, pnl, equity) is counted in cents, so  *)
(*    round(x, 2) of the source is rounding to the nearest integer.        *)
(*  - A Python exception is the result value Raise(name).                  *)
(*                                                                         *)
(* Specifications                                                          *)
(*  - Spec:     one call of run_backtest, a bar of the loop per step.      *)
(*  - SpecEval: one call of an evaluator's check_signal.                   *)
(*  - SpecRes:  one call of calc_resonance.                                *)
(*  - SpecRoi:  one call of _get_roi_target.                               *)
(*  - SpecScan: successive calls of scan_pair under every configuration.   *)
(*  - SpecCooldown: successive calls of scan_pair over twelve hours.       *)
(*  - SpecDrawdown: the drawdown loop of _calc_report, a point per step.   *)
(*  - SpecOrder: successive confirm and skip requests for recorded signals.*)
(*  - SpecTasks: two scan_pair coroutines interleaved at their awaits.     *)
(***************************************************************************)
EXTENDS Integers, Sequences, FiniteSets, TLC

VARIABLES
    candles,          \* run_backtest / check_signal argument: list of candles
    strategy_ids,     \* run_backtest argument
    min_strength,     \* run_backtest argument
    initial_capital,  \* run_backtest argument (cents)
    position_rules,   \* run_backtest argument
    roi_table,        \* run_backtest argument
    leverage,         \* run_backtest argument
    pc,               \* position of the run: "start", "loop", "done"
    i,                \* loop variable of run_backtest: next bar to process
    capital,          \* available capital (cents)
    open_positions,   \* list of open positions
    closed_trades,    \* list of closed trades
    equity_curve,     \* list of equity points
    all_signals,      \* list of buffered resonance signals with ts / price
    pending_signal,   \* one-bar signal buffer
    result,           \* value returned by run_backtest / scan_pair
    arg_index,        \* check_signal argument `index`
    sig,              \* value returned by the last check_signal call
    raw_signals,      \* calc_resonance argument
    resonance,        \* value returned by calc_resonance
    db_signals,       \* rows of the signals table, in id order
    now,              \* the UTC clock read by scan_pair (hours)
    settings,         \* the settings table read by scan_pair
    inst_id,          \* scan_pair argument
    db_trades,        \* rows of the trades table, in id order
    orders,           \* market orders placed on the exchange, oldest first
    tasks             \* locals of the scan_pair coroutines running concurrently

vars == <<candles, strategy_ids, min_strength, initial_capital, position_rules,
          roi_table, leverage, pc, i, capital, open_positions, closed_trades,
          equity_curve, all_signals, pending_signal, result, arg_index, sig,
          raw_signals, resonance, db_signals, now, settings, inst_id,
          db_trades, orders, tasks>>

btInputs == <<candles, strategy_ids, min_strength, initial_capital,
              position_rules, roi_table, leverage>>

btState == <<pc, i, capital, open_positions, closed_trades, equity_curve,
             all_signals, pending_signal, result>>

evalState == <<arg_index, sig, raw_signals, resonance>>

scanState == <<db_signals, now, settings, inst_id, db_trades, orders, tasks>>

\* no order was placed and no scan_pair coroutine is running
OrdersIdle ==
    /\ db_trades = <<>>
    /\ orders = <<>>
    /\ tasks = <<>>

\* the scanner has not run: empty signals table, no settings row
ScanIdle ==
    /\ db_signals = <<>>
    /\ now = 0
    /\ settings = <<>>
    /\ inst_id = ""
    /\ OrdersIdle

----------------------------------------------------------------------------
(* Generic helpers *)

None == [kind |-> "none"]

Raise(name) == [kind |-> "raise", error |-> name]

IsNone(v) == v.kind = "none"

IsSignal(v) == v.kind = "signal"

IsRaise(v) == v.kind = "raise"

Min(a, b) == IF a <= b THEN a ELSE b

Max(a, b) == IF a >= b THEN a ELSE b

Abs(a) == IF a >= 0 THEN a ELSE -a

\* s[k] for a Python index k
At(s, k) == s[k + 1]

\* Python slice s[a:b] for 0 <= a, b (clamped to the list like Python does)
Slice(s, a, b) == SubSeq(s, Min(a, Len(s)) + 1, Min(b, Len(s)))

\* sum(s[a..b]) and sum of squares, by halving (1-based, inclusive)
RECURSIVE SumRange(_, _, _)
SumRange(s, a, b) ==
    IF a > b THEN 0
    ELSE IF a = b THEN s[a]
    ELSE LET m == (a + b) \div 2 IN SumRange(s, a, m) + SumRange(s, m + 1, b)

RECURSIVE SumSqRange(_, _, _)
SumSqRange(s, a, b) ==
    IF a > b THEN 0
    ELSE IF a = b THEN s[a] * s[a]
    ELSE LET m == (a + b) \div 2 IN SumSqRange(s, a, m) + SumSqRange(s, m + 1, b)

RECURSIVE Gcd(_, _)
Gcd(a, b) == IF b = 0 THEN a ELSE Gcd(b, a % b)

----------------------------------------------------------------------------
(* Exact rationals <<n, d>>, d > 0, lowest terms *)

Rat(n, d) ==
    LET g == Gcd(Abs(n), Abs(d))
        s == IF d < 0 THEN -1 ELSE 1
    IN  <<(s * n) \div g, (s * d) \div g>>

RatOf(n) == <<n, 1>>

RatAdd(x, y) == Rat(x[1] * y[2] + y[1] * x[2], x[2] * y[2])

RatSub(x, y) == Rat(x[1] * y[2] - y[1] * x[2], x[2] * y[2])

RatMul(x, y) ==
    LET g1 == Gcd(Abs(x[1]), y[2])
        g2 == Gcd(Abs(y[1]), x[2])
    IN  Rat((x[1] \div g1) * (y[1] \div g2), (x[2] \div g2) * (y[2] \div g1))

RatDiv(x, y) == RatMul(x, IF y[1] < 0 THEN <<-y[2], -y[1]>> ELSE <<y[2], y[1]>>)

\* x < y by comparing continued-fraction expansions (no large products)
RECURSIVE RatLtND(_, _, _, _)
RatLtND(a, b, c, d) ==
    LET qa == a \div b
        qc == c \div d
        ra == a % b
        rc == c % d
    IN  IF qa # qc THEN qa < qc
        ELSE IF rc = 0 THEN FALSE
        ELSE IF ra = 0 THEN TRUE
        ELSE RatLtND(d, rc, b, ra)

RatLt(x, y) == RatLtND(x[1], x[2], y[1], y[2])

RatLeq(x, y) == ~RatLt(y, x)

RatEq(x, y) == x[1] * y[2] = y[1] * x[2]

RatMax(x, y) == IF RatLt(x, y) THEN y ELSE x

RatMin(x, y) == IF RatLt(y, x) THEN y ELSE x

\* round(x) to the nearest integer, ties to even (Python's round).  On an
\* exact tie the source's binary float may lie on either side of the tie, so
\* a rounded percentage of the source can differ by one unit in the last
\* place from the value here; money amounts and prices are not affected.
RatRound(x) ==
    LET q == x[1] \div x[2]
        r == x[1] % x[2]
    IN  IF 2 * r < x[2] THEN q
        ELSE IF 2 * r > x[2] THEN q + 1
        ELSE IF q % 2 = 0 THEN q ELSE q + 1

\* round(x * 100, 2) in hundredths, i.e. round(10000 * x), by long division
\* (the product 10000 * numerator is never formed)
PctRound(x) ==
    LET a == 100 * x[1]
        q == a \div x[2]
        r == a % x[2]
    IN  100 * q + RatRound(Rat(100 * r, x[2]))


----------------------------------------------------------------------------
(* api/engine/indicators.py *)

closes_of(cs) == [k \in 1..Len(cs) |-> cs[k].close]

highs_of(cs) == [k \in 1..Len(cs) |-> cs[k].high]

lows_of(cs) == [k \in 1..Len(cs) |-> cs[k].low]

\* calc_sma_series: 0 for the first period-1 entries, then the window mean
calc_sma_series(data, period) ==
    [k \in 1..Len(data) |->
        IF Len(data) < period \/ k < period THEN RatOf(0)
        ELSE Rat(SumRange(data, k - period + 1, k), period)]

\* calc_sma: mean of the last period values, 0.0 when the list is too short
calc_sma(data, period) ==
    IF Len(data) < period THEN RatOf(0)
    ELSE Rat(SumRange(data, Len(data) - period + 1, Len(data)), period)

\* gains / losses of calc_rsi_series (entry 1 is the leading 0.0)
rsi_gains(closes) ==
    [k \in 1..Len(closes) |-> IF k = 1 THEN 0 ELSE Max(0, closes[k] - closes[k - 1])]

rsi_losses(closes) ==
    [k \in 1..Len(closes) |-> IF k = 1 THEN 0 ELSE Max(0, closes[k - 1] - closes[k])]

\* calc_rsi_series: 50 for the first period entries; 100 when avg_loss is 0;
\* else 100 - 100 / (1 + avg_gain / avg_loss) = 100 * gain / (gain + loss)
calc_rsi_series(closes, period) ==
    LET gains == rsi_gains(closes)
        losses == rsi_losses(closes)
    IN  [k \in 1..Len(closes) |->
            IF Len(closes) < period + 1 \/ k <= period THEN RatOf(50)
            ELSE LET g == SumRange(gains, k - period + 1, k)
                     l == SumRange(losses, k - period + 1, k)
                 IN  IF l = 0 THEN RatOf(100) ELSE Rat(100 * g, g + l)]

\* calc_bollinger_series.  With window sum S and square sum Q over `period`
\* closes: sma = S / period and std = sqrt(V) / period for V = period*Q - S*S.
\* The series carries sma as `middle`, V as `v` and S as `s`.  The source's
\* upper = sma + 2 std and lower = sma - 2 std are read through above_upper /
\* below_lower, and bandwidth = (upper - lower) / sma * 100 = 400 * sqrt(V) / S
\* (0 unless sma > 0) through `bw2` = (bandwidth / 400)^2 = V / S^2, which
\* orders bandwidths as the source does since bandwidth >= 0.
calc_bollinger_series(closes, period) ==
    [k \in 1..Len(closes) |->
        IF k < period
        THEN [middle |-> RatOf(0), v |-> 0, s |-> 0, bw2 |-> RatOf(0)]
        ELSE LET S == SumRange(closes, k - period + 1, k)
                 V == period * SumSqRange(closes, k - period + 1, k) - S * S
             IN  [middle |-> Rat(S, period), v |-> V, s |-> S,
                  bw2 |-> IF S > 0 THEN RatMul(Rat(V, S), Rat(1, S))
                          ELSE RatOf(0)]]

\* price > upper[k]  <=>  period*price - S > 2 sqrt(V)
above_upper(price, b, period) ==
    LET e == period * price - b.s IN e > 0 /\ e * e > 4 * b.v

\* price < lower[k]  <=>  S - period*price > 2 sqrt(V)
below_lower(price, b, period) ==
    LET e == b.s - period * price IN e > 0 /\ e * e > 4 * b.v

----------------------------------------------------------------------------
(* api/strategies: registry, default parameters, warm-up lengths *)

\* strategy_registry after the five strategy modules are imported
strategy_registry ==
    {"macd_divergence", "pin_bar", "ma90", "rsi_pullback", "bb_squeeze"}

\* startup_candle_count of each class
startup_candle_count(sid) ==
    CASE sid = "macd_divergence" -> 60
      [] sid = "pin_bar" -> 20
      [] sid = "ma90" -> 125
      [] sid = "rsi_pullback" -> 135
      [] sid = "bb_squeeze" -> 50

\* get_default_params of each class; a ratio or percentage p/q is <<p, q>>
macd_divergence_params ==
    [fast_period |-> 12, slow_period |-> 26, signal_period |-> 9,
     divergence_bars |-> 3, lookback |-> 30, min_peak_distance |-> 5,
     max_freshness |-> 5, price_div_pct |-> <<5, 1000>>,
     stop_loss_pct |-> <<3, 100>>]

pin_bar_params ==
    [wick_ratio |-> <<5, 1>>, body_ratio |-> <<1, 5>>, trend_lookback |-> 10,
     stop_loss_pct |-> <<2, 100>>]

ma90_params ==
    [ma_period |-> 120, confirm_bars |-> 3, stop_loss_pct |-> <<25, 1000>>]

rsi_pullback_params ==
    [rsi_period |-> 14, ma_period |-> 120, oversold |-> 35, overbought |-> 65,
     stop_loss_pct |-> <<25, 1000>>]

bb_squeeze_params ==
    [bb_period |-> 20, squeeze_lookback |-> 20, squeeze_percentile |-> <<3, 10>>,
     ma_period |-> 120, stop_loss_pct |-> <<25, 1000>>]

\* the dict a check_signal returns
Signal(direction, entry_price, stop_loss, enter_tag, strategy_name) ==
    [kind |-> "signal", direction |-> direction, entry_price |-> entry_price,
     stop_loss |-> stop_loss, enter_tag |-> enter_tag,
     strategy_name |-> strategy_name]

\* current_price * (1 - pct)
pct_below(price, pct) == RatMul(RatOf(price), RatSub(RatOf(1), Rat(pct[1], pct[2])))

\* variant of pct_above that puts the level below the price
pct_above_inverted(price, pct) ==
    RatMul(RatOf(price), RatSub(RatOf(1), Rat(pct[1], pct[2])))

\* current_price * (1 + pct)
pct_above(price, pct) == RatMul(RatOf(price), RatAdd(RatOf(1), Rat(pct[1], pct[2])))

----------------------------------------------------------------------------
(* api/strategies/pin_bar.py *)

\* PinBarStrategy._is_downtrend
pin_bar_is_downtrend(params, cs, index) ==
    LET start == Max(0, index - params.trend_lookback)
        prices == closes_of(Slice(cs, start, index))
    IN  IF start >= index THEN FALSE
        ELSE IF Len(prices) < 3 THEN FALSE
        ELSE prices[1] > prices[Len(prices)]

\* PinBarStrategy._is_uptrend
pin_bar_is_uptrend(params, cs, index) ==
    LET start == Max(0, index - params.trend_lookback)
        prices == closes_of(Slice(cs, start, index))
    IN  IF start >= index THEN FALSE
        ELSE IF Len(prices) < 3 THEN FALSE
        ELSE prices[1] < prices[Len(prices)]

\* PinBarStrategy.check_signal
\* variant of pin_bar_no_range that lets a bar without a range through
pin_bar_no_range_negative(total_range) == total_range < 0

\* if total_range <= 0: return None
pin_bar_no_range(total_range) == total_range <= 0

pin_bar_check_signal(params, cs, index) ==
    IF index < startup_candle_count("pin_bar") THEN None
    ELSE IF index >= Len(cs) THEN Raise("IndexError")      \* candles[index]
    ELSE
    LET c == At(cs, index)
        o == c.open
        h == c.high
        l == c.low
        cl == c.close
        total_range == h - l
        body0 == Abs(cl - o)
        upper_wick == h - Max(o, cl)
        lower_wick == Min(o, cl) - l
        \* body = total_range * 0.001 when the body is exactly zero
        body == IF body0 = 0 THEN Rat(total_range, 1000) ELSE RatOf(body0)
        wick_min == RatMul(Rat(params.wick_ratio[1], params.wick_ratio[2]), body)
    IN  IF pin_bar_no_range(total_range) THEN None
        ELSE IF total_range = 0
             THEN Raise("ZeroDivisionError")               \* body / total_range
        ELSE IF RatLt(Rat(params.body_ratio[1], params.body_ratio[2]),
                      Rat(body0, total_range)) THEN None
        ELSE IF RatLeq(wick_min, RatOf(lower_wick))
                /\ pin_bar_is_downtrend(params, cs, index)
             THEN Signal("long", RatOf(cl), RatOf(l), "pin_hammer", "pin_bar")
        ELSE IF RatLeq(wick_min, RatOf(upper_wick))
                /\ pin_bar_is_uptrend(params, cs, index)
             THEN Signal("short", RatOf(cl), RatOf(h), "pin_shooting_star", "pin_bar")
        ELSE None

----------------------------------------------------------------------------
(* api/strategies/ma90.py *)

\* MA90Strategy.check_signal
ma90_check_signal(params, cs, index) ==
    IF index < startup_candle_count("ma90") THEN None
    ELSE
    LET closes == closes_of(Slice(cs, 0, index + 1))
        n == Len(closes)
        ma_period == params.ma_period
        confirm_bars == params.confirm_bars
        ma_series == calc_sma_series(closes, ma_period)
        current_price == closes[n]
        pre_index == n - confirm_bars - 1
        recent == (n - confirm_bars + 1)..n
        all_above == \A k \in recent : RatLt(ma_series[k], RatOf(closes[k]))
        all_below == \A k \in recent : RatLt(RatOf(closes[k]), ma_series[k])
    IN  IF n < ma_period + confirm_bars + 1 THEN None
        ELSE IF ma_series[n] = RatOf(0) THEN None
        ELSE IF pre_index < ma_period THEN None
        ELSE IF RatLt(RatOf(At(closes, pre_index)), At(ma_series, pre_index))
                /\ all_above
             THEN Signal("long", RatOf(current_price),
                         pct_below(current_price, params.stop_loss_pct),
                         "ma90_breakout_up", "ma90")
        ELSE IF RatLt(At(ma_series, pre_index), RatOf(At(closes, pre_index)))
                /\ all_below
             THEN Signal("short", RatOf(current_price),
                         pct_above(current_price, params.stop_loss_pct),
                         "ma90_breakout_down", "ma90")
        ELSE None

----------------------------------------------------------------------------
(* api/strategies/rsi_pullback.py *)

\* RSIPullbackStrategy.check_signal
rsi_pullback_check_signal(params, cs, index) ==
    IF index < startup_candle_count("rsi_pullback") THEN None
    ELSE
    LET closes == closes_of(Slice(cs, 0, index + 1))
        n == Len(closes)
        ma_series == calc_sma_series(closes, params.ma_period)
        current_ma == ma_series[n]
        rsi_series == calc_rsi_series(closes, params.rsi_period)
        current_rsi == rsi_series[n]
        prev_rsi == IF n >= 2 THEN rsi_series[n - 1] ELSE RatOf(50)
        current_price == closes[n]
        oversold == RatOf(params.oversold)
        overbought == RatOf(params.overbought)
    IN  IF n < params.ma_period + params.rsi_period THEN None
        ELSE IF current_ma = RatOf(0) THEN None
        ELSE IF RatLt(current_ma, RatOf(current_price))
                /\ RatLt(prev_rsi, oversold) /\ RatLeq(oversold, current_rsi)
             THEN Signal("long", RatOf(current_price),
                         pct_below(current_price, params.stop_loss_pct),
                         "rsi_pullback_long", "rsi_pullback")
        ELSE IF RatLt(RatOf(current_price), current_ma)
                /\ RatLt(overbought, prev_rsi) /\ RatLeq(current_rsi, overbought)
             THEN Signal("short", RatOf(current_price),
                         pct_above(current_price, params.stop_loss_pct),
                         "rsi_pullback_short", "rsi_pullback")
        ELSE None

----------------------------------------------------------------------------
(* api/strategies/bb_squeeze.py *)

\* BBSqueezeStrategy.check_signal
bb_squeeze_check_signal(params, cs, index) ==
    IF index < startup_candle_count("bb_squeeze") THEN None
    ELSE
    LET closes == closes_of(Slice(cs, 0, index + 1))
        n == Len(closes)
        bb_period == params.bb_period
        squeeze_lookback == params.squeeze_lookback
        bb == calc_bollinger_series(closes, bb_period)
        cur == At(bb, index)
        recent_bw == {bb[j + 1].bw2 : j \in (index - squeeze_lookback)..(index - 1)}
                        \ {RatOf(0)}
        max_bw == CHOOSE m \in recent_bw : \A x \in recent_bw : RatLeq(x, m)
        pct == Rat(params.squeeze_percentile[1], params.squeeze_percentile[2])
        threshold == RatMul(max_bw, RatMul(pct, pct))
        prev_bw == IF index > 0 THEN At(bb, index - 1).bw2 ELSE cur.bw2
        is_squeeze == RatLeq(prev_bw, threshold)
        is_expanding == RatLt(prev_bw, cur.bw2)
        current_price == closes[n]
        ma_period == params.ma_period
        current_ma == calc_sma_series(closes, ma_period)[n]
        up == above_upper(current_price, cur, bb_period)
        down == below_lower(current_price, cur, bb_period)
        vetoed == /\ ma_period > 0
                  /\ n >= ma_period
                  /\ RatLt(RatOf(0), current_ma)
                  /\ \/ up /\ RatLt(RatOf(current_price), current_ma)
                     \/ down /\ RatLt(current_ma, RatOf(current_price))
    IN  IF n < bb_period + squeeze_lookback THEN None
        ELSE IF index >= n THEN Raise("IndexError")     \* bb["bandwidth"][index]
        ELSE IF cur.bw2 = RatOf(0) \/ cur.middle = RatOf(0) THEN None
        ELSE IF recent_bw = {} THEN None
        ELSE IF ~(is_squeeze /\ is_expanding) THEN None
        ELSE IF vetoed THEN None
        ELSE IF up THEN Signal("long", RatOf(current_price), cur.middle,
                               "bb_squeeze_long", "bb_squeeze")
        ELSE IF down THEN Signal("short", RatOf(current_price), cur.middle,
                                 "bb_squeeze_short", "bb_squeeze")
        ELSE None

----------------------------------------------------------------------------
(* api/strategies/macd_divergence.py *)

\* MACDDivergenceStrategy._find_peaks: Python indices of the local maxima
macd_find_peaks(data, lookback, confirm) ==
    LET n == Len(data)
        start == Max(0, n - lookback)
        cand == [k \in 1..Max(0, (n - confirm) - (start + confirm)) |->
                    start + confirm + k - 1]
        is_peak(p) == \A j \in 1..confirm :
                          At(data, p - j) < At(data, p) /\ At(data, p + j) < At(data, p)
    IN  SelectSeq(cand, is_peak)

\* MACDDivergenceStrategy._find_valleys: Python indices of the local minima
macd_find_valleys(data, lookback, confirm) ==
    LET n == Len(data)
        start == Max(0, n - lookback)
        cand == [k \in 1..Max(0, (n - confirm) - (start + confirm)) |->
                    start + confirm + k - 1]
        is_valley(p) == \A j \in 1..confirm :
                          At(data, p - j) > At(data, p) /\ At(data, p + j) > At(data, p)
    IN  SelectSeq(cand, is_valley)

\* MACDDivergenceStrategy.check_signal.  The dif line is a float EMA
\* recurrence over the whole history (calc_macd_series); what it decides is
\* passed in: difTop stands for "len(dif_peaks) >= 2 and the last two dif
\* peaks are min_peak_distance apart and falling", difBottom for the mirrored
\* test on dif valleys.  calc_macd_series returns zeros (no peak, no valley)
\* for fewer than slow_period closes.
macd_divergence_check_signal(params, cs, index, difTop, difBottom) ==
    IF index < startup_candle_count("macd_divergence") THEN None
    ELSE
    LET part == Slice(cs, 0, index + 1)
        closes == closes_of(part)
        highs == highs_of(part)
        lows == lows_of(part)
        data_len == Len(closes)
        lookback == params.lookback
        confirm == params.divergence_bars
        current_price == closes[data_len]
        price_peaks == macd_find_peaks(highs, lookback, confirm)
        price_valleys == macd_find_valleys(lows, lookback, confirm)
        has_dif == data_len >= params.slow_period
        min_dist == params.min_peak_distance
        fresh == params.max_freshness + confirm
        pp1 == price_peaks[Len(price_peaks) - 1]
        pp2 == price_peaks[Len(price_peaks)]
        pv1 == price_valleys[Len(price_valleys) - 1]
        pv2 == price_valleys[Len(price_valleys)]
        top == /\ Len(price_peaks) >= 2
               /\ has_dif /\ difTop
               /\ data_len - 1 - pp2 <= fresh
               /\ Abs(pp2 - pp1) >= min_dist
               /\ RatLt(pct_above(At(highs, pp1), params.price_div_pct),
                        RatOf(At(highs, pp2)))
        bottom == /\ Len(price_valleys) >= 2
                  /\ has_dif /\ difBottom
                  /\ data_len - 1 - pv2 <= fresh
                  /\ Abs(pv2 - pv1) >= min_dist
                  /\ RatLt(RatOf(At(lows, pv2)),
                           pct_below(At(lows, pv1), params.price_div_pct))
    IN  IF data_len < 10 THEN None
        ELSE IF top
             THEN Signal("short", RatOf(current_price),
                         pct_above(current_price, params.stop_loss_pct),
                         "macd_top_div", "macd_divergence")
        ELSE IF bottom
             THEN Signal("long", RatOf(current_price),
                         pct_below(current_price, params.stop_loss_pct),
                         "macd_bottom_div", "macd_divergence")
        ELSE None

\* strategy.check_signal(candles, index) dispatched on the strategy id
check_signal(sid, cs, index, difTop, difBottom) ==
    CASE sid = "macd_divergence" ->
            macd_divergence_check_signal(macd_divergence_params, cs, index,
                                         difTop, difBottom)
      [] sid = "pin_bar" -> pin_bar_check_signal(pin_bar_params, cs, index)
      [] sid = "ma90" -> ma90_check_signal(ma90_params, cs, index)
      [] sid = "rsi_pullback" ->
            rsi_pullback_check_signal(rsi_pullback_params, cs, index)
      [] sid = "bb_squeeze" -> bb_squeeze_check_signal(bb_squeeze_params, cs, index)

----------------------------------------------------------------------------
(* Candle inputs *)

\* timestamp of the candle at Python index k (ascending, unique)
BarTs(k) == (k + 1) * 60

Candle(o, h, l, c, k) ==
    [open |-> o, high |-> h, low |-> l, close |-> c, ts |-> BarTs(k)]

\* the candle with every price p replaced by top - p (turns a long set-up
\* into the mirrored short set-up)
Mirror(c, top) ==
    [open |-> top - c.open, high |-> top - c.low, low |-> top - c.high,
     close |-> top - c.close, ts |-> c.ts]

\* Closes of the break-out history: quiet at 10, a volatile stretch, a quiet
\* shelf at 12, a dip to 10 under the falling 120-bar average, a step to 11
\* over it, and a jump to 15 at bar 136.
BreakoutClose(k) ==
    IF k < 91 THEN 10
    ELSE IF k <= 111 THEN (IF k % 2 = 0 THEN 5 ELSE 17)
    ELSE IF k <= 126 THEN 12
    ELSE IF k <= 133 THEN 10
    ELSE IF k <= 135 THEN 11
    ELSE 15

\* 137 candles without wicks, except bar 136 whose low is 13 (a hammer)
BreakoutCandles ==
    [k \in 1..137 |->
        LET c == BreakoutClose(k - 1)
        IN  Candle(c, c, IF k = 137 THEN 13 ELSE c, c, k - 1)]

BreakdownCandles == [k \in 1..137 |-> Mirror(BreakoutCandles[k], 22)]

\* Closes of the divergence history: flat at 20, a rally to 24 at bar 88, a
\* pull-back to 19, a steeper but shorter rally to 25 at bar 96, a fall to 17
\* at bar 100.  On it the source's dif line peaks lower at the second, higher
\* price peak (a top divergence at bar 100).
DivergenceClose(k) ==
    IF k < 85 THEN 20
    ELSE IF k <= 88 THEN 20 + (k - 84)
    ELSE IF k <= 93 THEN 24 - (k - 88)
    ELSE IF k <= 96 THEN 19 + 2 * (k - 93)
    ELSE IF k <= 100 THEN 25 - 2 * (k - 96)
    ELSE 17

\* 101 candles without wicks
DivergenceTopCandles ==
    [k \in 1..101 |-> LET c == DivergenceClose(k - 1) IN Candle(c, c, c, c, k - 1)]

DivergenceBottomCandles == [k \in 1..101 |-> Mirror(DivergenceTopCandles[k], 40)]

----------------------------------------------------------------------------
(* api/engine/resonance.py *)

RECURSIVE RatSum(_)
RatSum(xs) == IF Len(xs) = 0 THEN RatOf(0) ELSE RatAdd(xs[1], RatSum(Tail(xs)))

RECURSIVE RatMaxOf(_)
RatMaxOf(xs) == IF Len(xs) = 1 THEN xs[1] ELSE RatMax(xs[1], RatMaxOf(Tail(xs)))

RECURSIVE RatMinOf(_)
RatMinOf(xs) == IF Len(xs) = 1 THEN xs[1] ELSE RatMin(xs[1], RatMinOf(Tail(xs)))

is_long(s) == s.direction = "long"

is_short(s) == s.direction = "short"

\* variant of pick_long that resolves an equal count to short
pick_long_strict(n_long, n_short) == n_long > n_short

\* len(long_signals) >= len(short_signals) and long_signals
pick_long(n_long, n_short) == n_long >= n_short /\ n_long > 0

\* variant of conservative_stop that takes the stop farthest from the entry
loosest_stop(direction, stops) ==
    IF direction = "long" THEN RatMinOf(stops) ELSE RatMaxOf(stops)

\* max of the group's stops for a long, min for a short
conservative_stop(direction, stops) ==
    IF direction = "long" THEN RatMaxOf(stops) ELSE RatMinOf(stops)

\* calc_resonance.  enter_tag, "+".join(tags) in the source, is the list of
\* the joined tags.
calc_resonance(signals) ==
    IF Len(signals) = 0 THEN None
    ELSE
    LET long_signals == SelectSeq(signals, is_long)
        short_signals == SelectSeq(signals, is_short)
        use_long == pick_long(Len(long_signals), Len(short_signals))
        group == IF use_long THEN long_signals ELSE short_signals
        stops == [k \in 1..Len(group) |-> group[k].stop_loss]
    IN  IF ~use_long /\ Len(short_signals) = 0 THEN None
        ELSE [kind |-> "signal",
              direction |-> IF use_long THEN "long" ELSE "short",
              strength |-> Len(group),
              strategies |-> [k \in 1..Len(group) |-> group[k].strategy_name],
              entry_price |->
                  RatDiv(RatSum([k \in 1..Len(group) |-> group[k].entry_price]),
                         RatOf(Len(group))),
              stop_loss |->
                  conservative_stop(IF use_long THEN "long" ELSE "short", stops),
              enter_tag |-> [k \in 1..Len(group) |-> group[k].enter_tag]]

----------------------------------------------------------------------------
(* api/engine/backtest.py *)

\* d.get(key, default) on a dict modelled as a function
DictGet(d, key, default) == IF key \in DOMAIN d THEN d[key] ELSE default

\* the default position_rules of run_backtest (percent of initial capital)
DefaultPositionRules ==
    [strength_1_pct |-> 3, strength_2_pct |-> 5, strength_3_pct |-> 8,
     max_total_pct |-> 70]

\* f"strength_{min(strength, 3)}_pct"
\* variant of strength_key without min(strength, 3)
strength_key_unclamped(strength) ==
    CASE strength = 1 -> "strength_1_pct"
      [] strength = 2 -> "strength_2_pct"
      [] strength = 3 -> "strength_3_pct"
      [] OTHER -> "strength_n_pct"

strength_key(strength) ==
    CASE Min(strength, 3) = 1 -> "strength_1_pct"
      [] Min(strength, 3) = 2 -> "strength_2_pct"
      [] Min(strength, 3) = 3 -> "strength_3_pct"

\* the evaluators run_backtest instantiates: the requested ids found in the
\* registry, in request order
strategies_of(ids) == SelectSeq(ids, LAMBDA sid : sid \in strategy_registry)

RECURSIVE MaxOfSeq(_)
MaxOfSeq(xs) == IF Len(xs) = 1 THEN xs[1] ELSE Max(xs[1], MaxOfSeq(Tail(xs)))

\* max(s.startup_candle_count for s in strategies)
max_startup_of(strategies) ==
    MaxOfSeq([k \in 1..Len(strategies) |-> startup_candle_count(strategies[k])])

\* (exit - entry) / entry for a long, (entry - exit) / entry for a short
pnl_pct_of(direction, entry_price, price) ==
    IF direction = "long"
    THEN RatDiv(RatSub(price, entry_price), entry_price)
    ELSE RatDiv(RatSub(entry_price, price), entry_price)

\* _get_roi_target returning None
NoTarget == <<>>

\* int(key) of a table key: a key is the string of its decimal digits, as in
\* {"0": 0.05, "30": 0.03}
RECURSIVE int_of(_)
int_of(key) ==
    IF Len(key) = 0 THEN 0
    ELSE int_of(SubSeq(key, 1, Len(key) - 1)) * 10 + key[Len(key)]

\* variant of roi_applies that needs the position to be held longer than the key
roi_applies_after(bars_held, key) == bars_held > int_of(key)

\* bars_held >= int(bar_count_str)
roi_applies(bars_held, key) == bars_held >= int_of(key)

\* _get_roi_target: scan the table in ascending order of int(key), keeping
\* the last entry that applies (NoTarget when there is none).  A table is a
\* function from keys to target ratios; the roi_table None and the empty
\* dict, both falsy in the source, are the empty function.
RECURSIVE roi_scan(_, _, _, _)
roi_scan(table, todo, bars_held, applicable) ==
    IF todo = {} THEN applicable
    ELSE LET k == CHOOSE x \in todo : \A y \in todo : int_of(x) <= int_of(y)
         IN  roi_scan(table, todo \ {k}, bars_held,
                      IF roi_applies(bars_held, k) THEN table[k] ELSE applicable)

get_roi_target(table, bars_held) == roi_scan(table, DOMAIN table, bars_held, NoTarget)

\* _close_position: pnl in cents, pnl_pct in hundredths of a percent
close_position(pos, exit_price, exit_reason, exit_ts) ==
    LET pnl_pct == pnl_pct_of(pos.direction, pos.entry_price, exit_price)
        pnl == RatMul(RatOf(pos.position_size * pos.leverage), pnl_pct)
    IN  [direction |-> pos.direction, entry_price |-> pos.entry_price,
         entry_ts |-> pos.entry_ts, exit_price |-> exit_price,
         exit_ts |-> exit_ts, position_size |-> pos.position_size,
         pnl |-> RatRound(pnl),
         pnl_pct |-> PctRound(pnl_pct),
         exit_reason |-> exit_reason, strategies |-> pos.strategies,
         enter_tag |-> pos.enter_tag, strength |-> pos.strength,
         leverage |-> pos.leverage]

\* _calc_equity: capital + sum of (margin + leveraged unrealised pnl), rounded
\* variant of calc_equity that leaves the open positions out
calc_equity_capital_only(cap, positions, current_price) == cap

calc_equity(cap, positions, current_price) ==
    LET value(pos) ==
            RatAdd(RatOf(pos.position_size),
                   RatMul(pnl_pct_of(pos.direction, pos.entry_price,
                                     RatOf(current_price)),
                          RatOf(pos.position_size * pos.leverage)))
    IN  RatRound(RatAdd(RatOf(cap),
                        RatSum([k \in 1..Len(positions) |-> value(positions[k])])))

\* sum(p["position_size"] for p in open_positions)
total_used_of(positions) ==
    SumRange([k \in 1..Len(positions) |-> positions[k].position_size],
             1, Len(positions))

\* variant of entry_price_of that fills at the bar's close
entry_price_at_close(current) == RatOf(current.close)

\* entry_price = current["open"]
entry_price_of(current) == RatOf(current.open)

\* variant of capped_size without the budget check
uncapped_size(wanted, total_used, max_allowed) == wanted

\* the size-down against the total budget
capped_size(wanted, total_used, max_allowed) ==
    IF total_used + wanted > max_allowed
    THEN Max(0, max_allowed - total_used)
    ELSE wanted

\* variant of position_stop_loss that puts the stop at the bar's open
position_stop_loss_at_open(signal, current) == RatOf(current.open)

\* "stop_loss": signal["stop_loss"]
position_stop_loss(signal, current) == signal.stop_loss

\* Step 1 of the loop body: the buffered signal becomes a position at this
\* bar's open.  error is TRUE when position_rules["max_total_pct"] raises.
execute_pending(signal, bar, current, positions, cap) ==
    IF IsNone(signal) \/ ~(bar > 0)
    THEN [positions |-> positions, capital |-> cap, error |-> FALSE]
    ELSE IF "max_total_pct" \notin DOMAIN position_rules
    THEN [positions |-> positions, capital |-> cap, error |-> TRUE]
    ELSE
    LET size_pct == DictGet(position_rules, strength_key(signal.strength), 3)
        wanted == (initial_capital * size_pct) \div 100
        total_used == total_used_of(positions)
        max_allowed == (initial_capital * position_rules["max_total_pct"]) \div 100
        position_size == capped_size(wanted, total_used, max_allowed)
        pos == [direction |-> signal.direction,
                entry_price |-> entry_price_of(current),
                entry_ts |-> current.ts,
                entry_index |-> bar,
                position_size |-> position_size,
                stop_loss |-> position_stop_loss(signal, current),
                initial_stop_loss |-> signal.stop_loss,
                strategies |-> signal.strategies,
                enter_tag |-> signal.enter_tag,
                strength |-> signal.strength,
                leverage |-> leverage]
    IN  IF position_size > 0
        THEN [positions |-> Append(positions, pos), capital |-> cap - position_size,
              error |-> FALSE]
        ELSE [positions |-> positions, capital |-> cap, error |-> FALSE]

\* variant of roi_reached that takes the target as reached at any price
roi_reached_always(pnl_pct, roi_target) == TRUE

\* pnl_pct >= roi_target
roi_reached(pnl_pct, roi_target) == RatLeq(roi_target, pnl_pct)

\* variant of stop_touched that requires the close to reach the stop
stop_touched_by_close(pos, current) ==
    \/ pos.direction = "long" /\ RatLeq(RatOf(current.close), pos.stop_loss)
    \/ pos.direction = "short" /\ RatLeq(pos.stop_loss, RatOf(current.close))

\* the conditions of the stop-loss if / elif: the low of the bar at or below
\* the stop of a long, the high at or above the stop of a short
stop_touched(pos, current) ==
    \/ pos.direction = "long" /\ RatLeq(RatOf(current.low), pos.stop_loss)
    \/ pos.direction = "short" /\ RatLeq(pos.stop_loss, RatOf(current.high))

\* Step 2 of the loop body for one position: stop-loss first, then the ROI
\* take-profit; None when the position stays open
evaluate_exit(pos, bar, current) ==
    LET roi_target == get_roi_target(roi_table, bar - pos.entry_index)
    IN  IF stop_touched(pos, current)
        THEN [kind |-> "exit", exit_price |-> pos.stop_loss,
              exit_reason |-> <<"stop_loss">>]
        ELSE IF DOMAIN roi_table # {}
                /\ roi_target # NoTarget
                /\ roi_reached(pnl_pct_of(pos.direction, pos.entry_price,
                                          RatOf(current.close)),
                               roi_target)
        THEN [kind |-> "exit", exit_price |-> RatOf(current.close),
              exit_reason |-> <<"roi_", roi_target>>]
        ELSE None

\* Step 2 for the whole list: the list of exit decisions, one per position
exits_of(positions, bar, current) ==
    [k \in 1..Len(positions) |-> evaluate_exit(positions[k], bar, current)]

\* the trades closed at this bar, in position order
RECURSIVE trades_from(_, _, _, _)
trades_from(positions, exits, ts, k) ==
    IF k > Len(positions) THEN <<>>
    ELSE IF IsNone(exits[k]) THEN trades_from(positions, exits, ts, k + 1)
    ELSE <<close_position(positions[k], exits[k].exit_price,
                          exits[k].exit_reason, ts)>>
         \o trades_from(positions, exits, ts, k + 1)

\* the positions that stay open (the source filters on object identity)
RECURSIVE remaining_from(_, _, _)
remaining_from(positions, exits, k) ==
    IF k > Len(positions) THEN <<>>
    ELSE IF IsNone(exits[k])
    THEN <<positions[k]>> \o remaining_from(positions, exits, k + 1)
    ELSE remaining_from(positions, exits, k + 1)

\* variant of credit_of that credits the pnl without the notional
credit_of_pnl_only(trades) ==
    SumRange([k \in 1..Len(trades) |-> trades[k].pnl], 1, Len(trades))

\* sum of position_size + pnl over trades: what closing them credits
credit_of(trades) ==
    SumRange([k \in 1..Len(trades) |-> trades[k].position_size + trades[k].pnl],
             1, Len(trades))

\* Step 4: the non-None results of every strategy's check_signal at this bar,
\* in strategy order (a result that is an exception is kept to be re-raised)
RECURSIVE scan_signals(_, _, _, _, _)
scan_signals(strategies, cs, bar, difTop, difBottom) ==
    IF Len(strategies) = 0 THEN <<>>
    ELSE LET r == check_signal(strategies[1], cs, bar, difTop, difBottom)
             rest == scan_signals(Tail(strategies), cs, bar, difTop, difBottom)
         IN  IF IsNone(r) THEN rest ELSE <<r>> \o rest

\* variant of has_same_dir that never finds a position
has_same_dir_never(positions, direction) == FALSE

\* any(p["direction"] == resonance["direction"] for p in open_positions)
has_same_dir(positions, direction) ==
    \E k \in 1..Len(positions) : positions[k].direction = direction

\* Step 4: the resonance to buffer, or None
signal_to_buffer(raw, positions) ==
    IF Len(raw) = 0 THEN None
    ELSE LET r == calc_resonance(raw)
         IN  IF IsNone(r) \/ r.strength < min_strength THEN None
             ELSE IF has_same_dir(positions, r.direction)
             THEN None
             ELSE r

\* max(s[a..b]) by halving
RECURSIVE MaxRange(_, _, _)
MaxRange(s, a, b) ==
    IF a = b THEN s[a]
    ELSE LET m == (a + b) \div 2 IN Max(MaxRange(s, a, m), MaxRange(s, m + 1, b))

RECURSIVE MinRange(_, _, _)
MinRange(s, a, b) ==
    IF a = b THEN s[a]
    ELSE LET m == (a + b) \div 2 IN Min(MinRange(s, a, m), MinRange(s, m + 1, b))

\* The drawdown loop of _calc_report: the running peak starts at
\* initial_capital; dd = (peak - eq) / peak at every point (0 unless
\* peak > 0); the result is the largest dd (as a ratio; the source scales it
\* by 100 before comparing), 0 for an empty curve.
max_drawdown_of(curve, init_cap) ==
    LET eq == [k \in 1..Len(curve) |-> curve[k].equity]
        peak(k) == Max(init_cap, MaxRange(eq, 1, k))
        dd(k) == IF peak(k) > 0 THEN Rat(peak(k) - eq[k], peak(k))
                 ELSE RatOf(0)
        dds == {dd(k) : k \in 1..Len(curve)} \cup {RatOf(0)}
    IN  CHOOSE m \in dds : \A x \in dds : RatLeq(x, m)

\* _calc_report.  Percentages rounded to 2 decimals are in hundredths of a
\* percent, money in cents.  profit_factor is [inf, value] with value in
\* hundredths; sharpe_ratio, a quotient by a square root, is carried only as
\* zero / non-zero (of the quotient before rounding).
calc_report(trades, curve, init_cap, final_capital, cs) ==
    IF Len(trades) = 0
    THEN [initial_capital |-> init_cap, final_capital |-> final_capital,
          total_return_pct |-> 0, total_trades |-> 0, winning_trades |-> 0,
          losing_trades |-> 0, win_rate |-> 0,
          profit_factor |-> [inf |-> FALSE, value |-> 0],
          max_drawdown_pct |-> 0, sharpe_ratio |-> [zero |-> TRUE],
          avg_win_pct |-> 0, avg_loss_pct |-> 0, best_trade_pct |-> 0,
          worst_trade_pct |-> 0, buy_hold_return_pct |-> 0]
    ELSE
    LET n == Len(trades)
        pnls == [k \in 1..n |-> trades[k].pnl]
        pcts == [k \in 1..n |-> trades[k].pnl_pct]
        win == {k \in 1..n : pnls[k] > 0}
        lose == {k \in 1..n : pnls[k] <= 0}
        sum_over(f, ks) == SumRange([k \in 1..n |-> IF k \in ks THEN f[k] ELSE 0], 1, n)
        total_win == sum_over(pnls, win)
        total_loss == Abs(sum_over(pnls, lose))
        first_price == cs[1].close
        last_price == cs[Len(cs)].close
        tags == {trades[k].enter_tag : k \in 1..n}
        with_tag(t) == {k \in 1..n : trades[k].enter_tag = t}
    IN  [initial_capital |-> init_cap,
         final_capital |-> final_capital,
         total_return_pct |->
             PctRound(Rat(final_capital - init_cap, init_cap)),
         total_trades |-> n,
         winning_trades |-> Cardinality(win),
         losing_trades |-> Cardinality(lose),
         win_rate |-> RatRound(Rat(Cardinality(win) * 10000, n)),
         profit_factor |->
             IF total_loss > 0
             THEN [inf |-> FALSE, value |-> RatRound(Rat(total_win * 100, total_loss))]
             ELSE [inf |-> TRUE, value |-> 0],
         max_drawdown_pct |->
             PctRound(max_drawdown_of(curve, init_cap)),
         sharpe_ratio |->
             [zero |-> ~(/\ n > 1
                         /\ \E a, b \in 1..n : pcts[a] # pcts[b]
                         /\ SumRange(pcts, 1, n) # 0)],
         avg_win_pct |-> IF win # {}
                         THEN RatRound(Rat(sum_over(pcts, win), Cardinality(win)))
                         ELSE 0,
         avg_loss_pct |-> IF lose # {}
                          THEN RatRound(Rat(sum_over(pcts, lose), Cardinality(lose)))
                          ELSE 0,
         best_trade_pct |-> MaxRange(pcts, 1, n),
         worst_trade_pct |-> MinRange(pcts, 1, n),
         buy_hold_return_pct |->
             IF Len(cs) > 0 /\ first_price > 0
             THEN PctRound(Rat(last_price - first_price, first_price))
             ELSE 0,
         tag_stats |->
             [t \in tags |->
                 [count |-> Cardinality(with_tag(t)),
                  wins |-> Cardinality(with_tag(t) \cap win),
                  total_pnl |-> sum_over(pnls, with_tag(t))]]]

----------------------------------------------------------------------------
(* Inputs of run_backtest *)

\* number of bars of a wave history that may carry a pin bar
EventSlots == 3

\* number of free bars appended to a break-out or divergence history
TailLen == 2

\* The wave histories: 100 candles in ten legs of ten bars; the close starts
\* at 30 and moves by the leg's slope every bar; a candle opens at the
\* previous close and has no wicks.
WaveSlopes ==
    { <<-1, -1, 1, -1, 1, 1, -1, -1, 1, 1>>,
      <<-1, 1, 1, -1, -1, 1, 1, -1, 1, -1>> }

WaveClose(slopes, k) ==
    30 + SumRange([j \in 1..99 |-> slopes[(j \div 10) + 1]], 1, k)

\* the bar of event slot s: the last bar of a leg
EventBar(s) == 19 + 10 * s

EventShapes == {"none", "hammer", "star"}

\* an event bar is a doji with a lower wick of 3 (hammer) or an upper wick
\* of 3 (star)
WaveCandles(slopes, events) ==
    [n \in 1..100 |->
        LET k == n - 1
            c == WaveClose(slopes, k)
            o == IF k > 0 THEN WaveClose(slopes, k - 1) ELSE c
            e == IF \E s \in 1..EventSlots : EventBar(s) = k
                 THEN events[CHOOSE s \in 1..EventSlots : EventBar(s) = k]
                 ELSE "none"
        IN  CASE e = "hammer" -> Candle(c, c, c - 3, c, k)
              [] e = "star" -> Candle(c, c + 3, c, c, k)
              [] OTHER -> Candle(o, Max(o, c), Min(o, c), c, k)]

WaveHistories ==
    {WaveCandles(slopes, events) :
        slopes \in WaveSlopes, events \in [1..EventSlots -> EventShapes]}

\* A wave history in which the bar after every pin bar gaps 4 away from the
\* pin bar's close, past its wick, and moves 1 further: down after a hammer,
\* up after a star.
GapCandles(slopes, events) ==
    LET w == WaveCandles(slopes, events)
    IN  [n \in 1..100 |->
            LET k == n - 1
                e == IF \E s \in 1..EventSlots : EventBar(s) = k - 1
                     THEN events[CHOOSE s \in 1..EventSlots : EventBar(s) = k - 1]
                     ELSE "none"
                c == w[n - 1].close
            IN  CASE e = "hammer" -> Candle(c - 4, c - 4, c - 5, c - 5, k)
                  [] e = "star" -> Candle(c + 4, c + 5, c + 4, c + 5, k)
                  [] OTHER -> w[n]]

GapHistories ==
    {GapCandles(slopes, [s \in 1..EventSlots |-> shape]) :
        slopes \in WaveSlopes, shape \in {"hammer", "star"}}

\* A history with every price raised by d
Lifted(cs, d) ==
    [n \in 1..Len(cs) |->
        [cs[n] EXCEPT !.open = @ + d, !.high = @ + d, !.low = @ + d, !.close = @ + d]]

\* The wave histories around 600 instead of 30: a bar moves the price by
\* about 0.17 %, so that a position can be held for 30 and 60 bars without
\* reaching the first ROI target
SlowHistories ==
    {Lifted(WaveCandles(slopes, [s \in 1..EventSlots |-> shape]), 570) :
        slopes \in WaveSlopes, shape \in {"hammer", "star"}}

\* A tail bar after a history whose last close is `last`: a rise of 2, a
\* fall of 2, or a gap of 1 up that closes back at `last`.
TailShapes == {"up", "down", "gap"}

TailCandle(shape, last, k) ==
    CASE shape = "up" -> Candle(last, last + 2, last, last + 2, k)
      [] shape = "down" -> Candle(last, last, last - 2, last - 2, k)
      [] shape = "gap" -> Candle(last + 1, last + 1, last, last, k)

RECURSIVE WithTail(_, _)
WithTail(cs, shapes) ==
    IF Len(shapes) = 0 THEN cs
    ELSE WithTail(Append(cs, TailCandle(shapes[1], cs[Len(cs)].close, Len(cs))),
                  Tail(shapes))

TailedHistories(cs) ==
    {WithTail(cs, shapes) : shapes \in [1..TailLen -> TailShapes]}

\* histories too short for run_backtest
ShortHistories == {<<>>, SubSeq(BreakoutCandles, 1, 99)}

\* position_rules arguments: None (the defaults), a tight budget, a first
\* position above the budget, and a mapping without the budget key
TightRules ==
    [strength_1_pct |-> 50, strength_2_pct |-> 50, strength_3_pct |-> 50,
     max_total_pct |-> 70]

OverRules ==
    [strength_1_pct |-> 80, strength_2_pct |-> 80, strength_3_pct |-> 80,
     max_total_pct |-> 70]

NoBudgetRules == [strength_1_pct |-> 3]

\* roi_table arguments: None / {} and the table of the docstring
DecayingRoi ==
    (<<0>> :> <<1, 20>>) @@ (<<3, 0>> :> <<3, 100>>) @@ (<<6, 0>> :> <<1, 100>>)

RoiTables == {<<>>, DecayingRoi}

AllStrategies == <<"macd_divergence", "pin_bar", "ma90", "rsi_pullback", "bb_squeeze">>

\* one call of run_backtest (strategy_params is None throughout: every
\* evaluator runs on its default_params)
Call(cs, ids, strength, rules, roi) ==
    [candles |-> cs, strategy_ids |-> ids, min_strength |-> strength,
     position_rules |-> rules, roi_table |-> roi]

WaveCalls ==
    {Call(cs, <<"pin_bar">>, 1, rules, roi) :
        cs \in WaveHistories, rules \in {None, TightRules, OverRules},
        roi \in RoiTables}
    \cup {Call(cs, ids, 1, None, <<>>) :
            cs \in WaveHistories,
            ids \in {<<"pin_bar", "ma90">>, <<"unknown">>}}
    \cup {Call(cs, <<"unknown", "pin_bar">>, 1, NoBudgetRules, <<>>) :
            cs \in WaveHistories}

BreakoutCalls ==
    {Call(cs, ids, strength, None, <<>>) :
        cs \in TailedHistories(BreakoutCandles) \cup TailedHistories(BreakdownCandles),
        ids \in {AllStrategies, <<"ma90", "pin_bar", "bb_squeeze">>},
        strength \in {1, 2}}
    \cup {Call(cs, <<"ma90", "pin_bar", "bb_squeeze">>, 1, TightRules, DecayingRoi) :
            cs \in TailedHistories(BreakoutCandles)
                   \cup TailedHistories(BreakdownCandles)}

DivergenceCalls ==
    {Call(cs, <<"macd_divergence">>, 1, TightRules, roi) :
        cs \in TailedHistories(DivergenceTopCandles)
               \cup TailedHistories(DivergenceBottomCandles),
        roi \in RoiTables}

ShortCalls == {Call(cs, <<"pin_bar">>, 1, None, <<>>) : cs \in ShortHistories}

GapCalls ==
    {Call(cs, <<"pin_bar">>, 1, None, roi) : cs \in GapHistories, roi \in RoiTables}

SlowCalls == {Call(cs, <<"pin_bar">>, 1, None, DecayingRoi) : cs \in SlowHistories}

\* A wave that, from bar 39 on, rises and falls by the same amount: a position
\* entered after a hammer at bar 39 is closed at the end at its entry price
EvenSlopes == <<-1, -1, 1, -1, 1, -1, 1, -1, 1, -1>>

EvenCalls ==
    {Call(WaveCandles(EvenSlopes, events), <<"pin_bar">>, 1, None, <<>>) :
        events \in [1..EventSlots -> EventShapes]}

\* The even wave with a star at bar 29 and a hammer at bar 39, each followed
\* by a bar that opens at the pin bar's close, reaches the pin bar's wick
\* and closes more than 5 % away on the profitable side
SpikeCandles ==
    [WaveCandles(EvenSlopes,
                 [s \in 1..EventSlots |->
                     IF s = 1 THEN "star" ELSE IF s = 2 THEN "hammer" ELSE "none"])
        EXCEPT ![31] = Candle(21, 24, 19, 19, 30),
               ![41] = Candle(11, 12, 8, 12, 40)]

SpikeCalls ==
    {Call(SpikeCandles, <<"pin_bar">>, 1, None, roi) : roi \in RoiTables}

\* position_rules = {}: what the backtest API passes when no position_rules
\* setting is stored (settings.get("position_rules", {}))
EmptyRules == <<>>

EmptyRulesCalls ==
    {Call(WaveCandles(slopes, [s \in 1..EventSlots |-> shape]), <<"pin_bar">>,
          1, EmptyRules, <<>>) :
        slopes \in WaveSlopes, shape \in {"hammer", "star"}}

\* 100 flat candles: open = high = low = close = 100
FlatCandles == [n \in 1..100 |-> Candle(100, 100, 100, 100, n - 1)]

FlatCalls ==
    {Call(FlatCandles, ids, 1, None, <<>>) :
        ids \in {AllStrategies, <<"pin_bar">>,
                 <<"macd_divergence", "pin_bar", "bb_squeeze">>}}

Calls == WaveCalls \cup BreakoutCalls \cup DivergenceCalls \cup ShortCalls
         \cup GapCalls \cup SlowCalls \cup EvenCalls \cup FlatCalls
         \cup SpikeCalls \cup EmptyRulesCalls

----------------------------------------------------------------------------
(* run_backtest as a state machine *)

Init ==
    /\ \E call \in Calls :
        /\ candles = call.candles
        /\ strategy_ids = call.strategy_ids
        /\ min_strength = call.min_strength
        /\ position_rules = call.position_rules
        /\ roi_table = call.roi_table
    /\ initial_capital = 1000000
    /\ leverage = 3
    /\ pc = "start"
    /\ i = 0
    /\ capital = 0
    /\ open_positions = <<>>
    /\ closed_trades = <<>>
    /\ equity_curve = <<>>
    /\ all_signals = <<>>
    /\ pending_signal = None
    /\ result = None
    /\ arg_index = 0
    /\ sig = None
    /\ raw_signals = <<>>
    /\ resonance = None
    /\ ScanIdle

\* variant of not_enough_candles that only rejects the empty history
not_enough_candles_empty_only(cs) == Len(cs) = 0

\* not candles or len(candles) < 100
not_enough_candles(cs) == Len(cs) = 0 \/ Len(cs) < 100

\* the code before the loop: validation, default rules, state initialisation
Start ==
    /\ pc = "start"
    /\ IF not_enough_candles(candles)
       THEN /\ result' = [kind |-> "error", error |-> "not enough candles"]
            /\ pc' = "done"
            /\ UNCHANGED <<position_rules, capital>>
       ELSE /\ position_rules' = IF position_rules = None
                                 THEN DefaultPositionRules
                                 ELSE position_rules
            /\ IF Len(strategies_of(strategy_ids)) = 0
               THEN /\ result' = [kind |-> "error", error |-> "no valid strategy"]
                    /\ pc' = "done"
                    /\ UNCHANGED capital
               ELSE /\ capital' = initial_capital
                    /\ pc' = "loop"
                    /\ UNCHANGED result
    /\ UNCHANGED <<candles, strategy_ids, min_strength, initial_capital, roi_table,
                   leverage, i, open_positions, closed_trades, equity_curve,
                   all_signals, pending_signal, evalState>>
    /\ UNCHANGED scanState

\* variant of in_warmup without a warm-up period
in_warmup_never(bar, max_startup) == FALSE

\* Step 3: i < max_startup
in_warmup(bar, max_startup) == bar < max_startup

\* variant of warmup_curve that records nothing during the warm-up
warmup_curve_skipped(curve, point) == curve

\* Step 3: the equity point of a warm-up bar
warmup_curve(curve, point) == Append(curve, point)

\* The outcomes of the dif-line comparisons of macd_divergence at a bar:
\* either one when the evaluator is run, immaterial (one value) otherwise.
DifOutcomes(strategies, bar) ==
    IF ~in_warmup(bar, max_startup_of(strategies))
       /\ \E k \in 1..Len(strategies) : strategies[k] = "macd_divergence"
    THEN BOOLEAN
    ELSE {FALSE}

\* Step 1 raised KeyError
BarKeyError ==
    /\ result' = Raise("KeyError")
    /\ pc' = "done"
    /\ pending_signal' = None
    /\ UNCHANGED <<i, capital, open_positions, closed_trades, equity_curve,
                   all_signals, raw_signals, resonance>>

\* Steps 2 and 3 of a warm-up bar: exits, equity point, continue
BarWarmup(current, trades, remaining, cap, point) ==
    /\ open_positions' = remaining
    /\ closed_trades' = closed_trades \o trades
    /\ capital' = cap
    /\ pending_signal' = IF i > 0 THEN None ELSE pending_signal
    /\ equity_curve' = warmup_curve(equity_curve, point)
    /\ i' = i + 1
    /\ UNCHANGED <<pc, result, all_signals, raw_signals, resonance>>

\* Step 4 with an evaluator that raised: the exception leaves run_backtest
BarRaised(trades, remaining, cap, raised) ==
    /\ result' = raised
    /\ pc' = "done"
    /\ open_positions' = remaining
    /\ closed_trades' = closed_trades \o trades
    /\ capital' = cap
    /\ pending_signal' = IF i > 0 THEN None ELSE pending_signal
    /\ UNCHANGED <<i, equity_curve, all_signals, raw_signals, resonance>>

\* Steps 2 and 4 of a scanned bar: exits, scan, resonance, buffer, equity
BarScan(current, trades, remaining, cap, point, raw, buffered) ==
    /\ open_positions' = remaining
    /\ closed_trades' = closed_trades \o trades
    /\ capital' = cap
    /\ raw_signals' = raw
    /\ resonance' = IF Len(raw) = 0 THEN resonance ELSE calc_resonance(raw)
    /\ pending_signal' = IF ~IsNone(buffered) THEN buffered
                         ELSE IF i > 0 THEN None ELSE pending_signal
    /\ all_signals' =
           IF ~IsNone(buffered)
           THEN Append(all_signals,
                       [ts |-> current.ts, price |-> current.close] @@ buffered)
           ELSE all_signals
    /\ equity_curve' = Append(equity_curve, point)
    /\ i' = i + 1
    /\ UNCHANGED <<pc, result>>

\* One iteration of the loop body, for bar i.  Each intermediate value of the
\* body is bound once, in the order the source computes it.
Bar ==
    /\ pc = "loop"
    /\ i < Len(candles)
    /\ \E difTop, difBottom \in DifOutcomes(strategies_of(strategy_ids), i) :
       \E current \in {At(candles, i)} :
       \E entered \in {execute_pending(pending_signal, i, current,
                                       open_positions, capital)} :
        IF entered.error THEN BarKeyError
        ELSE
        \E exits \in {exits_of(entered.positions, i, current)} :
        \E trades \in {trades_from(entered.positions, exits, current.ts, 1)} :
        \E remaining \in {remaining_from(entered.positions, exits, 1)} :
        \E cap \in {entered.capital + credit_of(trades)} :
        \E point \in {[ts |-> current.ts,
                       equity |-> calc_equity(cap, remaining, current.close)]} :
            IF in_warmup(i, max_startup_of(strategies_of(strategy_ids)))
            THEN BarWarmup(current, trades, remaining, cap, point)
            ELSE
            \E raw \in {scan_signals(strategies_of(strategy_ids), candles, i,
                                     difTop, difBottom)} :
                IF \E k \in 1..Len(raw) : IsRaise(raw[k])
                THEN BarRaised(trades, remaining, cap,
                               raw[CHOOSE k \in 1..Len(raw) :
                                     /\ IsRaise(raw[k])
                                     /\ \A m \in 1..(k - 1) : ~IsRaise(raw[m])])
                ELSE BarScan(current, trades, remaining, cap, point, raw,
                             signal_to_buffer(raw, remaining))
    /\ UNCHANGED <<btInputs, arg_index, sig>>
    /\ UNCHANGED scanState

\* variant of force_close that leaves the open positions alone
force_close_skipped(positions, last) == <<>>

\* the loop after the bars: every open position closed at the last close
force_close(positions, last) ==
    [k \in 1..Len(positions) |->
        close_position(positions[k], RatOf(last.close), <<"backtest_end">>, last.ts)]

\* the code after the loop: force-close, report, return value
Finish ==
    /\ pc = "loop"
    /\ i = Len(candles)
    /\ LET last == candles[Len(candles)]
           trades == force_close(open_positions, last)
           all_trades == closed_trades \o trades
           cap == capital + credit_of(trades)
           report == calc_report(all_trades, equity_curve, initial_capital,
                                 cap, candles)
       IN  /\ closed_trades' = all_trades
           /\ capital' = cap
           /\ result' = [kind |-> "report", report |-> report,
                         signals_count |-> Len(all_signals),
                         signals |-> all_signals,
                         trades |-> all_trades,
                         equity_curve |-> equity_curve]
    /\ pc' = "done"
    /\ UNCHANGED <<btInputs, i, open_positions, equity_curve, all_signals,
                   pending_signal, evalState>>
    /\ UNCHANGED scanState

Next == Start \/ Bar \/ Finish

Spec == Init /\ [][Next]_vars

----------------------------------------------------------------------------
(* One call of an evaluator's check_signal(candles, index) *)

\* largest index passed to check_signal
MaxIndex == 138

\* Histories shaped as those of the MA breakout tests (test_strategies.py
\* 2.1 and 2.2): 96 bars closing at 20, one closing at 19, three at 24
Ma90UpCandles ==
    [n \in 1..100 |->
        IF n <= 96 THEN Candle(20, 21, 19, 20, n - 1)
        ELSE IF n = 97 THEN Candle(20, 21, 19, 19, n - 1)
        ELSE Candle(23, 25, 22, 24, n - 1)]

\* 50 bars closing at 20, 47 at 26, three at 15
Ma90DownCandles ==
    [n \in 1..100 |->
        IF n <= 50 THEN Candle(20, 21, 19, 20, n - 1)
        ELSE IF n <= 97 THEN Candle(26, 27, 25, 26, n - 1)
        ELSE Candle(16, 17, 15, 15, n - 1)]

EvalHistories ==
    {Ma90UpCandles, Ma90DownCandles} \cup
    {Slice(cs, 0, n) :
        cs \in {BreakoutCandles, BreakdownCandles, DivergenceTopCandles,
                DivergenceBottomCandles}
               \cup {WaveCandles(slopes, [s \in 1..EventSlots |-> shape]) :
                       slopes \in WaveSlopes, shape \in {"hammer", "star"}},
        n \in {0, 10, 45, 100, 101, 137}}

InitEval ==
    /\ candles \in EvalHistories
    /\ strategy_ids = <<>>
    /\ min_strength = 1
    /\ initial_capital = 1000000
    /\ position_rules = None
    /\ roi_table = <<>>
    /\ leverage = 3
    /\ pc = "start"
    /\ i = 0
    /\ capital = 0
    /\ open_positions = <<>>
    /\ closed_trades = <<>>
    /\ equity_curve = <<>>
    /\ all_signals = <<>>
    /\ pending_signal = None
    /\ result = None
    /\ arg_index = 0
    /\ sig = None
    /\ raw_signals = <<>>
    /\ resonance = None
    /\ ScanIdle

\* strategy_registry[sid](None).check_signal(candles, index); strategy_ids
\* records which evaluator was called
CheckSignal ==
    /\ pc = "start"
    /\ \E sid \in strategy_registry, index \in 0..MaxIndex :
        \E difTop, difBottom \in IF sid = "macd_divergence" THEN BOOLEAN ELSE {FALSE} :
            /\ strategy_ids' = <<sid>>
            /\ arg_index' = index
            /\ sig' = check_signal(sid, candles, index, difTop, difBottom)
    /\ pc' = "done"
    /\ UNCHANGED <<candles, min_strength, initial_capital, position_rules,
                   roi_table, leverage, i, capital, open_positions,
                   closed_trades, equity_curve, all_signals, pending_signal,
                   result, raw_signals, resonance>>
    /\ UNCHANGED scanState

NextEval == CheckSignal

SpecEval == InitEval /\ [][NextEval]_vars

----------------------------------------------------------------------------
(* One call of calc_resonance(signals) *)

\* longest list of raw signals passed to calc_resonance
MaxSignals == 3

\* the raw signal in position k of a list: its strategy is named by position
RawSignal(direction, entry, stop, k) ==
    Signal(direction, RatOf(entry), RatOf(stop), <<"tag", k>>, <<"strategy", k>>)

RawChoices == {"long", "short"} \X {100, 102} \X {97, 98, 104}

RawLists ==
    UNION {{[k \in 1..n |-> RawSignal(f[k][1], f[k][2], f[k][3], k)] :
              f \in [1..n -> RawChoices]} : n \in 0..MaxSignals}

InitRes ==
    /\ candles = <<>>
    /\ strategy_ids = <<>>
    /\ min_strength = 1
    /\ initial_capital = 1000000
    /\ position_rules = None
    /\ roi_table = <<>>
    /\ leverage = 3
    /\ pc = "start"
    /\ i = 0
    /\ capital = 0
    /\ open_positions = <<>>
    /\ closed_trades = <<>>
    /\ equity_curve = <<>>
    /\ all_signals = <<>>
    /\ pending_signal = None
    /\ result = None
    /\ arg_index = 0
    /\ sig = None
    /\ raw_signals = <<>>
    /\ resonance = None
    /\ ScanIdle

CalcResonance ==
    /\ pc = "start"
    /\ \E signals \in RawLists :
        /\ raw_signals' = signals
        /\ resonance' = calc_resonance(signals)
    /\ pc' = "done"
    /\ UNCHANGED <<btInputs, i, capital, open_positions, closed_trades,
                   equity_curve, all_signals, pending_signal, result,
                   arg_index, sig>>
    /\ UNCHANGED scanState

NextRes == CalcResonance

SpecRes == InitRes /\ [][NextRes]_vars

----------------------------------------------------------------------------
(* One call of _get_roi_target(roi_table, bars_held); arg_index holds the  *)
(* integer argument bars_held and result the returned target               *)

\* largest bars_held passed to _get_roi_target
MaxBarsHeld == 100

\* the keys of the tables, among them "100", which sorts before "30" as a
\* string, and "5", which sorts after it
RoiKeys == {<<0>>, <<5>>, <<3, 0>>, <<6, 0>>, <<1, 0, 0>>}

\* the target of each key: distinct, so that a result names its key
RoiTargetOf(key) ==
    CASE key = <<0>> -> <<1, 20>>
      [] key = <<5>> -> <<1, 25>>
      [] key = <<3, 0>> -> <<3, 100>>
      [] key = <<6, 0>> -> <<1, 100>>
      [] key = <<1, 0, 0>> -> <<1, 200>>

\* every table over a subset of the keys
RoiTableChoices == {[key \in keys |-> RoiTargetOf(key)] : keys \in SUBSET RoiKeys}

InitRoi ==
    /\ roi_table \in RoiTableChoices
    /\ arg_index \in 0..MaxBarsHeld
    /\ candles = <<>>
    /\ strategy_ids = <<>>
    /\ min_strength = 1
    /\ initial_capital = 1000000
    /\ position_rules = None
    /\ leverage = 3
    /\ pc = "start"
    /\ i = 0
    /\ capital = 0
    /\ open_positions = <<>>
    /\ closed_trades = <<>>
    /\ equity_curve = <<>>
    /\ all_signals = <<>>
    /\ pending_signal = None
    /\ result = None
    /\ sig = None
    /\ raw_signals = <<>>
    /\ resonance = None
    /\ ScanIdle

GetRoiTarget ==
    /\ pc = "start"
    /\ result' = get_roi_target(roi_table, arg_index)
    /\ pc' = "done"
    /\ UNCHANGED <<btInputs, i, capital, open_positions, closed_trades,
                   equity_curve, all_signals, pending_signal, evalState>>
    /\ UNCHANGED scanState

NextRoi == GetRoiTarget

SpecRoi == InitRoi /\ [][NextRoi]_vars

----------------------------------------------------------------------------
(* api/engine/scanner.py: successive calls of scan_pair(inst_id, bar,       *)
(* min_strength).  The strategies table (strategy_ids: the enabled ids in  *)
(* id order, every evaluator on its default parameters), the settings      *)
(* table and min_strength are fixed through a behaviour; the signals table *)
(* grows; the clock advances between calls.  The candles the exchange      *)
(* returns are an input of every call.                                     *)

\* timedelta(hours=6)
CooldownHours == 6

\* get_signals(inst_id=inst_id, limit=5)
RecentLimit == 5

\* all_settings.get("trend_ma_period", 200)
DefaultTrendMaPeriod == 200

\* hours between two readings of the clock
ClockStep == 3

\* the last reading of the clock
MaxHours == 12

\* the largest number of rows of the signals table
MaxRows == 7

\* the largest number of rows of the second instrument
MaxOtherRows == 1

Instruments == {"BTC-USDT-SWAP", "ETH-USDT-SWAP"}

\* fetch_candles(inst_id, bar, limit): the newest `limit` candles of the
\* exchange's history, oldest first
fetch_candles(history, limit) ==
    IF Len(history) <= limit THEN history
    ELSE SubSeq(history, Len(history) - limit + 1, Len(history))

\* max(s.startup_candle_count for s in strategies) if strategies else 100
scan_max_startup(strategies) ==
    IF Len(strategies) > 0 THEN max_startup_of(strategies) ELSE 100

\* the condition of the trend filter's list comprehension
with_trend(direction, current_price, ma_val) ==
    \/ direction = "long" /\ RatLt(ma_val, RatOf(current_price))
    \/ direction = "short" /\ RatLt(RatOf(current_price), ma_val)

\* the trend filter: the raw signals kept (all of them when the filter is
\* off or when calc_sma returns a value that is not positive)
trend_filter(raw, cs, stg) ==
    IF ~DictGet(stg, "trend_filter", FALSE) THEN raw
    ELSE LET ma_val == calc_sma(closes_of(cs),
                                DictGet(stg, "trend_ma_period", DefaultTrendMaPeriod))
         IN  IF RatLt(RatOf(0), ma_val)
             THEN SelectSeq(raw, LAMBDA s :
                               with_trend(s.direction, cs[Len(cs)].close, ma_val))
             ELSE raw

\* the rows of the instrument
rows_of(rows, inst) == SelectSeq(rows, LAMBDA r : r.inst_id = inst)

\* Database.get_signals(inst_id=inst, limit=limit): the rows of the
\* instrument, newest id first, at most `limit` of them
get_signals(rows, inst, limit) ==
    LET mine == rows_of(rows, inst)
    IN  [k \in 1..Min(Len(mine), limit) |-> mine[Len(mine) - k + 1]]

\* variant of cooling_down without a cooldown
cooling_down_never(created, clock) == FALSE

\* datetime.now(timezone.utc) - created < timedelta(hours=6)
cooling_down(created, clock) == clock - created < CooldownHours

\* the cooldown loop over the recent rows
in_cooldown(recent, direction, clock) ==
    \E k \in 1..Len(recent) :
        /\ recent[k].direction = direction
        /\ cooling_down(recent[k].created_at, clock)

\* Database.create_signal: the row inserted
signal_row(rows, inst, r, clock) ==
    [id |-> Len(rows) + 1, inst_id |-> inst, direction |-> r.direction,
     strength |-> r.strength, strategies |-> r.strategies,
     entry_price |-> r.entry_price, stop_loss |-> r.stop_loss,
     enter_tag |-> r.enter_tag, status |-> "pending", created_at |-> clock]

\* Closes of the scanned histories: the break-out closes, the dip to 10
\* starting at bar dip_from instead of bar 127
ScanClose(k, dip_from) ==
    IF k >= dip_from /\ k <= 126 THEN 10 ELSE BreakoutClose(k)

\* 147 candles: ten flat candles at `early`, then the break-out closes
\* without wicks; the last candle is a doji with a lower wick of 2 (hammer)
\* or an upper wick of 2 (star)
ScanCandles(early, dip_from, shape) ==
    [n \in 1..147 |->
        LET k == n - 1
            c == IF k < 10 THEN early ELSE ScanClose(k - 10, dip_from)
        IN  IF k < 146 THEN Candle(c, c, c, c, k)
            ELSE IF shape = "hammer" THEN Candle(c, c, c - 2, c, k)
            ELSE Candle(c, c + 2, c, c, k)]

\* four evaluators signal long on the last bar; the close 15 is above the
\* mean 10.4 of the 147 closes
UpHistory == ScanCandles(10, 127, "hammer")

\* the mirrored history: four evaluators signal short
DownHistory == [k \in 1..147 |-> Mirror(UpHistory[k], 22)]

\* as UpHistory, but the mean 15.2 of the 147 closes is above the close 15
AgainstHistory == ScanCandles(80, 127, "hammer")

\* three evaluators signal long and pin_bar, on the shooting star after a
\* rise, short; the mean of the 147 closes is above the close 15
MixedHistory == ScanCandles(80, 126, "star")

\* fewer candles than max_startup + 10
TooFewHistory == SubSeq(UpHistory, 8, 147)

ScanHistories ==
    {UpHistory, DownHistory, AgainstHistory, MixedHistory, TooFewHistory}

\* what the exchange returns for an instrument: any of the histories for the
\* first one; for the second the falling history, and too few candles once
\* it has MaxOtherRows rows
ExchangeHistories(inst, rows) ==
    IF inst = "BTC-USDT-SWAP" THEN ScanHistories
    ELSE IF Len(rows_of(rows, inst)) < MaxOtherRows THEN {DownHistory}
    ELSE {TooFewHistory}

ScanEnabled == <<"pin_bar", "ma90", "rsi_pullback", "bb_squeeze">>

\* the settings table: no row, the filter on with the default period, the
\* filter on over the 147 candles
ScanSettings ==
    {<<>>, [trend_filter |-> TRUE],
     [trend_filter |-> TRUE, trend_ma_period |-> 147]}

\* The evaluation of the enabled evaluators on the newest bar of the candles
\* fetched from each history (lines 56-62), computed once per history.  None
\* of the enabled evaluators is macd_divergence, whose dif comparisons are
\* therefore immaterial.
ScanRaw ==
    [history \in ScanHistories |->
        LET strategies == strategies_of(ScanEnabled)
            cs == fetch_candles(history, scan_max_startup(strategies) + 50)
        IN  scan_signals(strategies, cs, Len(cs) - 1, FALSE, FALSE)]

\* raw_signals after the loop over the strategies
scan_raw(ids, history) ==
    IF ids = ScanEnabled THEN ScanRaw[history]
    ELSE LET strategies == strategies_of(ids)
             cs == fetch_candles(history, scan_max_startup(strategies) + 50)
         IN  scan_signals(strategies, cs, Len(cs) - 1, FALSE, FALSE)

\* the strategies table, the settings table and min_strength of a behaviour
ScanConfigs ==
    {<<ScanEnabled, stg, 1>> : stg \in ScanSettings}
    \cup {<<ScanEnabled, [trend_filter |-> TRUE, trend_ma_period |-> 147], 2>>,
          <<<<>>, <<>>, 1>>}

\* the first call of scan_pair under `configs`, with the clock at `clock`
ScanStart(configs, clock) ==
    /\ \E config \in configs :
        /\ strategy_ids = config[1]
        /\ settings = config[2]
        /\ min_strength = config[3]
    /\ db_signals = <<>>
    /\ now = clock
    /\ inst_id = ""
    /\ candles = <<>>
    /\ initial_capital = 1000000
    /\ position_rules = None
    /\ roi_table = <<>>
    /\ leverage = 3
    /\ pc = "scan"
    /\ i = 0
    /\ capital = 0
    /\ open_positions = <<>>
    /\ closed_trades = <<>>
    /\ equity_curve = <<>>
    /\ all_signals = <<>>
    /\ pending_signal = None
    /\ result = None
    /\ arg_index = 0
    /\ sig = None
    /\ raw_signals = <<>>
    /\ resonance = None

\* scan_pair returns None; cs, raw and r are its locals at the return
ScanNone(cs, raw, r) ==
    /\ candles' = cs
    /\ raw_signals' = raw
    /\ resonance' = r
    /\ result' = None
    /\ UNCHANGED db_signals

\* a check_signal call raised: the exception leaves scan_pair
ScanRaised(cs, raised) ==
    /\ candles' = cs
    /\ result' = raised
    /\ UNCHANGED <<raw_signals, resonance, db_signals>>

\* the signal is inserted and returned
ScanRecorded(cs, raw, r, inst) ==
    /\ candles' = cs
    /\ raw_signals' = raw
    /\ resonance' = r
    /\ db_signals' = Append(db_signals, signal_row(db_signals, inst, r, now))
    /\ result' = [id |-> Len(db_signals) + 1, inst_id |-> inst, created_at |-> now]
                 @@ r

\* One call of scan_pair.  Each intermediate value is bound once, in the
\* order the source computes it.
ScanPair ==
    /\ pc = "scan"
    /\ Len(db_signals) < MaxRows
    /\ \E inst \in Instruments :
       \E history \in ExchangeHistories(inst, db_signals) :
       \E strategies \in {strategies_of(strategy_ids)} :
       \E cs \in {fetch_candles(history, scan_max_startup(strategies) + 50)} :
        /\ inst_id' = inst
        /\ IF Len(strategy_ids) = 0 THEN ScanNone(candles, raw_signals, resonance)
           ELSE IF Len(cs) < scan_max_startup(strategies) + 10
           THEN ScanNone(cs, raw_signals, resonance)
           ELSE
           \E raw \in {scan_raw(strategy_ids, history)} :
            IF \E k \in 1..Len(raw) : IsRaise(raw[k])
            THEN ScanRaised(cs, raw[CHOOSE k \in 1..Len(raw) :
                                      /\ IsRaise(raw[k])
                                      /\ \A m \in 1..(k - 1) : ~IsRaise(raw[m])])
            ELSE IF Len(raw) = 0 THEN ScanNone(cs, raw, resonance)
            ELSE
            \E kept \in {trend_filter(raw, cs, settings)} :
                IF Len(kept) = 0 THEN ScanNone(cs, kept, resonance)
                ELSE
                \E r \in {calc_resonance(kept)} :
                    IF IsNone(r) \/ r.strength < min_strength
                    THEN ScanNone(cs, kept, r)
                    ELSE IF in_cooldown(get_signals(db_signals, inst, RecentLimit),
                                        r.direction, now)
                    THEN ScanNone(cs, kept, r)
                    ELSE ScanRecorded(cs, kept, r, inst)
    /\ UNCHANGED <<strategy_ids, min_strength, initial_capital, position_rules,
                   roi_table, leverage, pc, i, capital, open_positions,
                   closed_trades, equity_curve, all_signals, pending_signal,
                   arg_index, sig, now, settings, db_trades, orders, tasks>>

\* time passes between two calls
Tick ==
    /\ pc = "scan"
    /\ now + ClockStep <= MaxHours
    /\ now' = now + ClockStep
    /\ UNCHANGED <<btInputs, btState, evalState, db_signals, settings, inst_id,
                   db_trades, orders, tasks>>

NextScan == ScanPair \/ Tick

\* every configuration, over the last two readings of the clock
InitScan == ScanStart(ScanConfigs, MaxHours - ClockStep) /\ OrdersIdle

SpecScan == InitScan /\ [][NextScan]_vars

\* the filter off and min_strength 1, from the first reading of the clock
InitCooldown == ScanStart({<<ScanEnabled, <<>>, 1>>}, 0) /\ OrdersIdle

SpecCooldown == InitCooldown /\ [][NextScan]_vars

----------------------------------------------------------------------------
(* Confirming and skipping a recorded signal: routers/signals.py and
   exchange/order_manager.py.  Each request is handled to completion before
   the next one arrives. *)

\* the largest number of market orders placed in a behaviour
MaxOrders == 2

\* req.leverage of SignalConfirmRequest: the default and one other value
Leverages == {3, 5}

\* Database.update_signal_status: UPDATE signals SET status = ? WHERE id = ?
update_signal_status(rows, signal_id, status) ==
    [k \in 1..Len(rows) |->
        IF rows[k].id = signal_id THEN [rows[k] EXCEPT !.status = status]
        ELSE rows[k]]

\* Database.get_signal_by_id: the row, or None
get_signal_by_id(rows, signal_id) ==
    IF \E k \in 1..Len(rows) : rows[k].id = signal_id
    THEN rows[CHOOSE k \in 1..Len(rows) : rows[k].id = signal_id]
    ELSE None

\* f"strength_{strength}_pct"
order_strength_key(strength) ==
    CASE strength = 1 -> "strength_1_pct"
      [] strength = 2 -> "strength_2_pct"
      [] strength = 3 -> "strength_3_pct"
      [] strength = 4 -> "strength_4_pct"
      [] OTHER -> "strength_5_pct"

\* what the exchange answers to get_balance and get_positions: the available
\* USDT, the total equity and the margin of the open positions
Accounts ==
    {[availBal |-> 1000, totalEq |-> 1000, margin |-> 0],
     [availBal |-> 320, totalEq |-> 1000, margin |-> 680],
     [availBal |-> 0, totalEq |-> 0, margin |-> 0]}

\* calc_position_size: size_usdt and allowed
calc_position_size(strength, stg, account) ==
    LET rules == DictGet(stg, "position_rules", <<>>)
        pct == DictGet(rules, order_strength_key(strength), 3)
        max_total == DictGet(rules, "max_total_pct", 70)
        usdt_balance == account.availBal
        total_equity == account.totalEq
        size_usdt == Rat(usdt_balance * pct, 100)
    IN  IF usdt_balance <= 0
        THEN [size_usdt |-> RatOf(0), allowed |-> FALSE]
        ELSE IF /\ total_equity > 0
                /\ account.margin * 100 + pct * total_equity
                       > max_total * total_equity
        THEN [size_usdt |-> size_usdt, allowed |-> FALSE]
        ELSE IF total_equity <= 0 /\ pct > max_total
        THEN [size_usdt |-> size_usdt, allowed |-> FALSE]
        ELSE [size_usdt |-> size_usdt, allowed |-> TRUE]

\* calc_contract_size with ctVal 0.01 and lotSz 1:
\* max(lot_sz, int(raw_size / lot_sz) * lot_sz)
calc_contract_size(usdt_amount, price, lev) ==
    LET raw_size == RatDiv(RatMul(usdt_amount, RatOf(lev)),
                           RatMul(price, <<1, 100>>))
    IN  Max(1, raw_size[1] \div raw_size[2])

\* the calls of execute_signal that the exchange or the database may fail
ExchangeFailures ==
    {"none", "set_leverage", "place_market_order", "place_stop_loss",
     "create_trade"}

\* What execute_signal leaves behind and returns.  `fails` names the call
\* that raises; an exception of place_stop_loss is caught in execute_signal,
\* any other leaves it and is caught in confirm_signal.  The market order
\* carries the id of the signal it was placed for.
execute_signal(rows, trades, placed, signal_id, lev, stg, account, fails) ==
    LET signal == get_signal_by_id(rows, signal_id)
        unchanged == [rows |-> rows, trades |-> trades, orders |-> placed]
    IN  IF signal = None
        THEN unchanged @@ [result |-> [success |-> FALSE, error |-> "not_found"]]
        ELSE IF signal.status # "confirmed"
        THEN unchanged @@ [result |-> [success |-> FALSE, error |-> "status"]]
        ELSE
        LET pos_info == calc_position_size(signal.strength, stg, account)
            current_price == signal.entry_price
            contract_size ==
                calc_contract_size(pos_info.size_usdt, current_price, lev)
            order == [signal_id |-> signal_id, inst_id |-> signal.inst_id,
                      side |-> IF signal.direction = "long" THEN "buy" ELSE "sell",
                      sz |-> contract_size]
            trade == [id |-> Len(trades) + 1, signal_id |-> signal_id,
                      inst_id |-> signal.inst_id, direction |-> signal.direction,
                      entry_price |-> current_price,
                      position_size |-> pos_info.size_usdt, leverage |-> lev]
        IN  IF ~pos_info.allowed
            THEN unchanged @@ [result |-> [success |-> FALSE, error |-> "not_allowed"]]
            ELSE IF fails \in {"set_leverage", "place_market_order"}
            THEN unchanged @@ [result |-> [success |-> FALSE, error |-> fails]]
            ELSE IF fails = "create_trade"
            THEN [rows |-> rows, trades |-> trades,
                  orders |-> Append(placed, order),
                  result |-> [success |-> FALSE, error |-> fails]]
            ELSE [rows |-> update_signal_status(rows, signal_id, "executed"),
                  trades |-> Append(trades, trade),
                  orders |-> Append(placed, order),
                  result |-> [success |-> TRUE, trade_id |-> trade.id,
                              order |-> order,
                              stop_loss_order |-> fails # "place_stop_loss"]]

\* confirm_signal: await db.update_signal_status(signal_id, "confirmed")
confirm_status(rows, signal_id) ==
    update_signal_status(rows, signal_id, "confirmed")

\* the signal ids of the requests: the recorded ones and one that is not
RequestIds == 1..(Len(db_signals) + 1)

\* POST /api/signals/{signal_id}/confirm
ConfirmSignal ==
    /\ pc = "api"
    /\ Len(orders) < MaxOrders
    /\ \E signal_id \in RequestIds, lev \in Leverages, account \in Accounts,
          fails \in ExchangeFailures :
       \E done \in {execute_signal(confirm_status(db_signals, signal_id),
                                   db_trades, orders, signal_id, lev, settings,
                                   account, fails)} :
        /\ db_signals' = done.rows
        /\ db_trades' = done.trades
        /\ orders' = done.orders
        /\ result' = [signal_id |-> signal_id] @@ done.result
    /\ UNCHANGED <<btInputs, pc, i, capital, open_positions, closed_trades,
                   equity_curve, all_signals, pending_signal, evalState, now,
                   settings, inst_id, tasks>>

\* POST /api/signals/{signal_id}/skip
SkipSignal ==
    /\ pc = "api"
    /\ \E signal_id \in RequestIds :
        /\ db_signals' = update_signal_status(db_signals, signal_id, "skipped")
        /\ result' = [signal_id |-> signal_id, status |-> "skipped"]
    /\ UNCHANGED <<btInputs, pc, i, capital, open_positions, closed_trades,
                   equity_curve, all_signals, pending_signal, evalState, now,
                   settings, inst_id, db_trades, orders, tasks>>

NextOrder == ConfirmSignal \/ SkipSignal

\* the signals table after scan_pair recorded the resonance of history h1
\* for the first instrument and that of h2 for the second
RecordedSignals(h1, h2) ==
    LET first == signal_row(<<>>, "BTC-USDT-SWAP", calc_resonance(ScanRaw[h1]), 0)
    IN  <<first,
          signal_row(<<first>>, "ETH-USDT-SWAP", calc_resonance(ScanRaw[h2]), 0)>>

\* the settings table: no position_rules row, or one with a tier and a cap
OrderSettings ==
    {<<>>, [position_rules |-> [strength_4_pct |-> 5, max_total_pct |-> 70]]}

\* two pending signals, no order, no trade
InitOrder ==
    /\ \E h1 \in {UpHistory, DownHistory} :
        db_signals = RecordedSignals(h1, DownHistory)
    /\ settings \in OrderSettings
    /\ now = 0
    /\ inst_id = ""
    /\ db_trades = <<>>
    /\ orders = <<>>
    /\ tasks = <<>>
    /\ pc = "api"
    /\ result = None
    /\ candles = <<>>
    /\ strategy_ids = <<>>
    /\ min_strength = 1
    /\ initial_capital = 1000000
    /\ position_rules = None
    /\ roi_table = <<>>
    /\ leverage = 3
    /\ i = 0
    /\ capital = 0
    /\ open_positions = <<>>
    /\ closed_trades = <<>>
    /\ equity_curve = <<>>
    /\ all_signals = <<>>
    /\ pending_signal = None
    /\ arg_index = 0
    /\ sig = None
    /\ raw_signals = <<>>
    /\ resonance = None

SpecOrder == InitOrder /\ [][NextOrder]_vars

----------------------------------------------------------------------------
(* scan_pair as coroutines: two invocations for one instrument, one per
   timeframe, each suspended at its awaits.  Between the cooldown query and
   the insert of a coroutine the other one may run. *)

\* the largest number of rows of the signals table, the inserts of the
\* suspended coroutines included
MaxTaskRows == 3

\* the monitored timeframes
MonitoredBars == {"4H", "1H"}

\* the instrument both coroutines scan
TaskInstrument == "BTC-USDT-SWAP"

\* what the exchange returns for the instrument on a timeframe
TaskHistories == {UpHistory, DownHistory, TooFewHistory}

\* a coroutine that has returned, or has not been started
IdleTask == [pc |-> "idle", resonance |-> None]

\* the coroutines that will still insert a row unless the cooldown stops them
Suspended == {b \in MonitoredBars : tasks[b].pc # "idle"}

taskFrame == <<btInputs, pc, i, capital, open_positions, closed_trades,
               equity_curve, all_signals, pending_signal, evalState, now,
               settings, inst_id, db_trades, orders>>

\* the coroutine returns `value` (None or an exception) before the query
TaskReturns(value) ==
    /\ result' = value
    /\ UNCHANGED tasks

\* the coroutine is suspended in the cooldown query with resonance r
TaskQueries(bar, r) ==
    /\ tasks' = [tasks EXCEPT ![bar] = [pc |-> "query", resonance |-> r]]
    /\ UNCHANGED result

\* scan_pair(inst_id, bar, min_strength) from its call to the await of
\* db.get_signals: the coroutine returns None (or raises), or is suspended
\* in the cooldown query
ScanEvaluate(bar) ==
    /\ pc = "scan"
    /\ tasks[bar].pc = "idle"
    /\ Len(db_signals) + Cardinality(Suspended) < MaxTaskRows
    /\ \E history \in TaskHistories :
       \E strategies \in {strategies_of(strategy_ids)} :
       \E cs \in {fetch_candles(history, scan_max_startup(strategies) + 50)} :
        IF Len(strategy_ids) = 0 THEN TaskReturns(None)
        ELSE IF Len(cs) < scan_max_startup(strategies) + 10
        THEN TaskReturns(None)
        ELSE
        \E raw \in {scan_raw(strategy_ids, history)} :
            IF \E k \in 1..Len(raw) : IsRaise(raw[k])
            THEN TaskReturns(raw[CHOOSE k \in 1..Len(raw) :
                                    /\ IsRaise(raw[k])
                                    /\ \A m \in 1..(k - 1) : ~IsRaise(raw[m])])
            ELSE IF Len(raw) = 0 THEN TaskReturns(None)
            ELSE
            \E kept \in {trend_filter(raw, cs, settings)} :
                IF Len(kept) = 0 THEN TaskReturns(None)
                ELSE
                \E r \in {calc_resonance(kept)} :
                    IF IsNone(r) \/ r.strength < min_strength
                    THEN TaskReturns(None)
                    ELSE TaskQueries(bar, r)
    /\ UNCHANGED <<taskFrame, db_signals>>

\* the query returns and the cooldown loop runs: the coroutine returns None,
\* or goes on to the await of db.create_signal
ScanQuery(bar) ==
    /\ pc = "scan"
    /\ tasks[bar].pc = "query"
    /\ IF in_cooldown(get_signals(db_signals, TaskInstrument, RecentLimit),
                      tasks[bar].resonance.direction, now)
       THEN /\ tasks' = [tasks EXCEPT ![bar] = IdleTask]
            /\ result' = None
       ELSE /\ tasks' = [tasks EXCEPT ![bar].pc = "insert"]
            /\ UNCHANGED result
    /\ UNCHANGED <<taskFrame, db_signals>>

\* db.create_signal inserts the row and the coroutine returns the signal
ScanInsert(bar) ==
    /\ pc = "scan"
    /\ tasks[bar].pc = "insert"
    /\ db_signals' =
           Append(db_signals,
                  [bar |-> bar] @@ signal_row(db_signals, TaskInstrument,
                                              tasks[bar].resonance, now))
    /\ result' = [id |-> Len(db_signals) + 1, inst_id |-> TaskInstrument,
                  bar |-> bar, created_at |-> now] @@ tasks[bar].resonance
    /\ tasks' = [tasks EXCEPT ![bar] = IdleTask]
    /\ UNCHANGED taskFrame

NextTasks ==
    \/ \E bar \in MonitoredBars : ScanEvaluate(bar)
    \/ \E bar \in MonitoredBars : ScanQuery(bar)
    \/ \E bar \in MonitoredBars : ScanInsert(bar)
    \/ Tick

\* the filter off and min_strength 1, no coroutine started
InitTasks ==
    /\ ScanStart({<<ScanEnabled, <<>>, 1>>}, 0)
    /\ db_trades = <<>>
    /\ orders = <<>>
    /\ tasks = [bar \in MonitoredBars |-> IdleTask]

SpecTasks == InitTasks /\ [][NextTasks]_vars

----------------------------------------------------------------------------
(* Properties of run_backtest (specification Spec) *)

\* the evaluators of the run and their largest warm-up
Strategies == strategies_of(strategy_ids)

MaxStartup == max_startup_of(Strategies)

\* the run is inside or after the loop
Running == pc = "loop" \/ (pc = "done" /\ result.kind = "report")

\* the Python indices of the bars of the history
Bars == 0..(Len(candles) - 1)

\* x (a position or a trade) was entered at `bar` from the signal buffered
\* at the bar before
EnteredOneBarAfter(x, bar) ==
    /\ bar >= 1
    /\ x.entry_ts = At(candles, bar).ts
    /\ x.entry_price = RatOf(At(candles, bar).open)
    /\ \E k \in 1..Len(all_signals) :
        /\ all_signals[k].ts = At(candles, bar - 1).ts
        /\ all_signals[k].direction = x.direction
        /\ all_signals[k].strategies = x.strategies
        /\ all_signals[k].strength = x.strength

\* C1: every open position and every closed trade was entered at a bar
\* T+1 >= 1, at that bar's open, from a resonance signal recorded at bar T
\* (so never at the signal's own bar and never at bar 0).
C1_OneBarLag ==
    /\ \A k \in 1..Len(open_positions) :
        /\ EnteredOneBarAfter(open_positions[k], open_positions[k].entry_index)
        /\ \E m \in 1..Len(all_signals) :
            /\ all_signals[m].ts = At(candles, open_positions[k].entry_index - 1).ts
            /\ all_signals[m].stop_loss = open_positions[k].stop_loss
    /\ \A k \in 1..Len(closed_trades) :
        \E bar \in Bars : EnteredOneBarAfter(closed_trades[k], bar)

\* C1 witness: a finished run with a trade entered at a bar whose open
\* differs from its close and from the signal's reference price
C1_Witness ==
    /\ pc = "done"
    /\ result.kind = "report"
    /\ \E k \in 1..Len(closed_trades), bar \in Bars :
        /\ bar >= 1
        /\ closed_trades[k].entry_ts = At(candles, bar).ts
        /\ At(candles, bar).open # At(candles, bar).close
        /\ At(candles, bar).open # At(candles, bar - 1).close
        /\ closed_trades[k].entry_price = RatOf(At(candles, bar).open)

\* C2: the margin of the open positions never exceeds
\* initial_capital * max_total_pct / 100.
C2_TotalWithinBudget ==
    (Running /\ "max_total_pct" \in DOMAIN position_rules)
    => total_used_of(open_positions) * 100
         <= initial_capital * position_rules["max_total_pct"]

\* C2 witness: two positions are open, the second cut down to the head-room
\* left by the first, and the budget is used in full
C2_Witness ==
    /\ pc = "loop"
    /\ Len(open_positions) = 2
    /\ open_positions[2].position_size * 100
         < initial_capital * position_rules[strength_key(open_positions[2].strength)]
    /\ total_used_of(open_positions) * 100
         = initial_capital * position_rules["max_total_pct"]

\* C3: at most one long and at most one short position are open, and a
\* buffered signal never has the direction of an open position.
C3_OnePerDirection ==
    /\ \A a, b \in 1..Len(open_positions) :
        open_positions[a].direction = open_positions[b].direction => a = b
    /\ (pc = "loop" /\ IsSignal(pending_signal))
       => \A k \in 1..Len(open_positions) :
            open_positions[k].direction # pending_signal.direction

\* C3 witness: the bar just processed produced a resonance strong enough to
\* trade, in the direction of a position that is open, and nothing was
\* buffered
C3_Witness ==
    /\ pc = "loop"
    /\ i > MaxStartup
    /\ Len(raw_signals) > 0
    /\ IsSignal(resonance)
    /\ resonance.strength >= min_strength
    /\ resonance.entry_price = RatOf(At(candles, i - 1).close)
    /\ \E k \in 1..Len(open_positions) :
        open_positions[k].direction = resonance.direction
    /\ IsNone(pending_signal)

\* the Python index of the bar with timestamp ts
BarOfTs(ts) == CHOOSE bar \in Bars : At(candles, bar).ts = ts

\* C4: while the bars processed so far are all below the largest warm-up no
\* evaluator has been run and nothing is buffered, yet every one of those
\* bars has its equity sample; no signal is ever recorded at a bar below the
\* largest warm-up and no position is entered at a bar <= it.
C4_WarmupSilent ==
    Running =>
        /\ (pc = "loop" /\ i <= MaxStartup)
           => /\ raw_signals = <<>>
              /\ IsNone(resonance)
              /\ IsNone(pending_signal)
              /\ all_signals = <<>>
              /\ open_positions = <<>>
              /\ Len(equity_curve) = i
        /\ \A k \in 1..Len(all_signals) : BarOfTs(all_signals[k].ts) >= MaxStartup
        /\ \A k \in 1..Len(open_positions) : open_positions[k].entry_index > MaxStartup
        /\ \A k \in 1..Len(closed_trades) :
            BarOfTs(closed_trades[k].entry_ts) > MaxStartup

\* C4 witness: a bar on which an enabled evaluator, had it been run, would
\* have signalled lies inside the warm-up and has been processed: nothing is
\* buffered and the equity sample of the bar is there
C4_Witness ==
    /\ pc = "loop"
    /\ i >= 1
    /\ i <= MaxStartup
    /\ \E k \in 1..Len(Strategies) :
        IsSignal(check_signal(Strategies[k], candles, i - 1, FALSE, FALSE))
    /\ IsNone(pending_signal)
    /\ equity_curve[i].ts = At(candles, i - 1).ts

\* C10: inside the loop the curve holds one point per processed bar, the
\* k-th with the timestamp of the k-th candle; the curve a successful run
\* returns has one point per candle.
C10_OneEquityPointPerCandle ==
    /\ pc = "loop"
       => /\ Len(equity_curve) = i
          /\ \A k \in 1..i : equity_curve[k].ts = candles[k].ts
    /\ (pc = "done" /\ result.kind = "report")
       => /\ Len(result.equity_curve) = Len(candles)
          /\ \A k \in 1..Len(candles) : result.equity_curve[k].ts = candles[k].ts

\* C10 witness: a successful run over a history with warm-up bars and
\* scanned bars, some of them with a position open
C10_Witness ==
    /\ pc = "done"
    /\ result.kind = "report"
    /\ 0 < MaxStartup
    /\ MaxStartup < Len(candles)
    /\ Len(result.trades) > 0
    /\ Len(result.equity_curve) = Len(candles)

\* C9: every resonance computed from the raw signals of one bar has a
\* strength of 1, 2 or 3.
C9_StrengthOneToThree ==
    IsSignal(resonance) => resonance.strength \in {1, 2, 3}

----------------------------------------------------------------------------
(* Properties of check_signal (specification SpecEval) *)

\* C5: check_signal returns no signal for an index below the evaluator's
\* startup_candle_count and never raises, whatever the length of the list.
C5_NoneBelowStartupNeverRaises ==
    pc = "done"
    => /\ ~IsRaise(sig)
       /\ arg_index < startup_candle_count(strategy_ids[1]) => IsNone(sig)

\* C6: a long raw signal has its stop below its entry price, a short raw
\* signal above.
C6_StopOnLosingSide ==
    (pc = "done" /\ IsSignal(sig))
    => /\ sig.direction = "long" => RatLt(sig.stop_loss, sig.entry_price)
       /\ sig.direction = "short" => RatLt(sig.entry_price, sig.stop_loss)

\* C6 witness: bb_squeeze signals a short on the break-down history
C6_Witness ==
    /\ pc = "done"
    /\ strategy_ids = <<"bb_squeeze">>
    /\ IsSignal(sig)
    /\ sig.direction = "short"
    /\ RatLt(sig.entry_price, sig.stop_loss)

----------------------------------------------------------------------------
(* Properties of calc_resonance (specification SpecRes) *)

CountOf(direction) ==
    Cardinality({k \in 1..Len(raw_signals) : raw_signals[k].direction = direction})

\* the raw signals of the winning direction, in list order
WinningGroup ==
    SelectSeq(raw_signals, LAMBDA s : s.direction = resonance.direction)

\* C7: for a non-empty list the direction is the one with the larger count,
\* long on an equal count, and the strength is the number of raw signals of
\* that direction.
C7_MajorityDirection ==
    (pc = "done" /\ Len(raw_signals) > 0)
    => /\ IsSignal(resonance)
       /\ resonance.direction =
            IF CountOf("long") >= CountOf("short") THEN "long" ELSE "short"
       /\ resonance.strength = CountOf(resonance.direction)

\* C7 witness: [long, long, short] gives long with strength 2
C7_Witness ==
    /\ pc = "done"
    /\ Len(raw_signals) = 3
    /\ raw_signals[1].direction = "long"
    /\ raw_signals[2].direction = "long"
    /\ raw_signals[3].direction = "short"
    /\ resonance.direction = "long"
    /\ resonance.strength = 2

\* C8: the stop is the largest stop of the winning group for a long and the
\* smallest for a short, and the entry price is the mean of the group's
\* entry prices.
C8_ConservativeStopMeanEntry ==
    (pc = "done" /\ Len(raw_signals) > 0)
    => LET g == WinningGroup
       IN  /\ \E k \in 1..Len(g) : g[k].stop_loss = resonance.stop_loss
           /\ \A k \in 1..Len(g) :
                IF resonance.direction = "long"
                THEN RatLeq(g[k].stop_loss, resonance.stop_loss)
                ELSE RatLeq(resonance.stop_loss, g[k].stop_loss)
           /\ RatEq(RatMul(resonance.entry_price, RatOf(Len(g))),
                    RatSum([k \in 1..Len(g) |-> g[k].entry_price]))

\* C8 witness: two long signals with stops 97 and 98 and different entry
\* prices give the stop 98 and the entry price between the two
C8_Witness ==
    /\ pc = "done"
    /\ Len(raw_signals) = 2
    /\ raw_signals[1].direction = "long"
    /\ raw_signals[2].direction = "long"
    /\ raw_signals[1].stop_loss = RatOf(97)
    /\ raw_signals[2].stop_loss = RatOf(98)
    /\ raw_signals[1].entry_price = RatOf(100)
    /\ raw_signals[2].entry_price = RatOf(102)
    /\ resonance.stop_loss = RatOf(98)
    /\ resonance.entry_price = RatOf(101)

----------------------------------------------------------------------------
(* The drawdown loop of _calc_report, one point of the curve per step *)

\* longest equity curve
MaxCurveLen == 4

\* equities of the points, around the initial capital 100; a leveraged
\* position can take the equity to 0 and below
EquityLevels == {-50, 0, 50, 100, 150}

CurveOf(eqs) == [k \in 1..Len(eqs) |-> [ts |-> BarTs(k - 1), equity |-> eqs[k]]]

Curves ==
    {CurveOf(eqs) : eqs \in UNION {[1..n -> EquityLevels] : n \in 0..MaxCurveLen}}

\* if eq > peak: peak = eq
peak_update(peak, eq) == IF eq > peak THEN eq ELSE peak

\* dd = (peak - eq) / peak * 100 if peak > 0 else 0, as a ratio
drawdown_at(peak, eq) == IF peak > 0 THEN Rat(peak - eq, peak) ELSE RatOf(0)

\* variant of drawdown_update that keeps the drawdown of the last point
drawdown_update_last(max_drawdown_pct, dd) == dd

\* if dd > max_drawdown_pct: max_drawdown_pct = dd
drawdown_update(max_drawdown_pct, dd) ==
    IF RatLt(max_drawdown_pct, dd) THEN dd ELSE max_drawdown_pct

\* before the loop: max_drawdown_pct = 0, peak = initial_capital
InitDrawdown ==
    /\ equity_curve \in Curves
    /\ initial_capital \in {0, 100}
    /\ result = [peak |-> initial_capital, max_drawdown_pct |-> RatOf(0)]
    /\ pc = "drawdown"
    /\ i = 0
    /\ candles = <<>>
    /\ strategy_ids = <<>>
    /\ min_strength = 1
    /\ position_rules = None
    /\ roi_table = <<>>
    /\ leverage = 3
    /\ capital = 0
    /\ open_positions = <<>>
    /\ closed_trades = <<>>
    /\ all_signals = <<>>
    /\ pending_signal = None
    /\ arg_index = 0
    /\ sig = None
    /\ raw_signals = <<>>
    /\ resonance = None
    /\ ScanIdle

\* one iteration of `for point in equity_curve`
DrawdownPoint ==
    /\ pc = "drawdown"
    /\ i < Len(equity_curve)
    /\ LET eq == equity_curve[i + 1].equity
           peak == peak_update(result.peak, eq)
       IN  result' = [peak |-> peak,
                      max_drawdown_pct |->
                          drawdown_update(result.max_drawdown_pct,
                                          drawdown_at(peak, eq))]
    /\ i' = i + 1
    /\ UNCHANGED <<btInputs, pc, capital, open_positions, closed_trades,
                   equity_curve, all_signals, pending_signal, evalState>>
    /\ UNCHANGED scanState

\* the loop is over
DrawdownDone ==
    /\ pc = "drawdown"
    /\ i = Len(equity_curve)
    /\ pc' = "done"
    /\ UNCHANGED <<btInputs, i, capital, open_positions, closed_trades,
                   equity_curve, all_signals, pending_signal, result, evalState>>
    /\ UNCHANGED scanState

NextDrawdown == DrawdownPoint \/ DrawdownDone

SpecDrawdown == InitDrawdown /\ [][NextDrawdown]_vars

----------------------------------------------------------------------------
(* Properties of the end of run_backtest and of its results (Spec) *)

\* the positions after step 1 of the bar about to be processed
AfterEntry ==
    execute_pending(pending_signal, i, At(candles, i), open_positions, capital).positions

\* the number of closed trades entered at ts
TradesEnteredAt(trades, ts) ==
    Cardinality({k \in 1..Len(trades) : trades[k].entry_ts = ts})

\* C11: a position is never lost and never closed twice: after a bar every
\* position held after the bar's entry step is either still open or has
\* exactly one closed trade, and closed trades are only ever appended; the
\* step that ends the run closes every position still open, in order, at the
\* last candle's close and timestamp with exit_reason backtest_end, credits
\* position_size + pnl of each to capital and returns the whole list, in
\* which no entry occurs twice.  (The list open_positions itself, a local of
\* run_backtest, is not emptied; none of its positions is left without its
\* closed trade.)
C11_ForceCloseAtEnd ==
    [][ pc = "loop" =>
        /\ \A k \in 1..Len(closed_trades) :
             /\ k <= Len(closed_trades')
             /\ closed_trades'[k] = closed_trades[k]
        /\ pc' = "loop" =>
             \A k \in 1..Len(AfterEntry) :
                LET pos == AfterEntry[k]
                    still == \E m \in 1..Len(open_positions') : open_positions'[m] = pos
                    closed == TradesEnteredAt(closed_trades', pos.entry_ts)
                IN  IF still THEN closed = 0 ELSE closed = 1
        /\ (pc' = "done" /\ result'.kind = "report") =>
             LET last == candles[Len(candles)]
                 n == Len(closed_trades)
             IN  /\ Len(closed_trades') = n + Len(open_positions)
                 /\ \A k \in 1..Len(open_positions) :
                      LET pos == open_positions[k]
                          trade == closed_trades'[n + k]
                      IN  /\ trade.entry_ts = pos.entry_ts
                          /\ trade.direction = pos.direction
                          /\ trade.entry_price = pos.entry_price
                          /\ trade.position_size = pos.position_size
                          /\ trade.exit_price = RatOf(last.close)
                          /\ trade.exit_ts = last.ts
                          /\ trade.exit_reason = <<"backtest_end">>
                          /\ trade.pnl =
                               RatRound(RatMul(RatOf(pos.position_size * pos.leverage),
                                               pnl_pct_of(pos.direction, pos.entry_price,
                                                          RatOf(last.close))))
                 /\ capital' = capital
                      + SumRange([k \in 1..Len(closed_trades') |->
                                    IF k > n
                                    THEN closed_trades'[k].position_size
                                         + closed_trades'[k].pnl
                                    ELSE 0], 1, Len(closed_trades'))
                 /\ result'.trades = closed_trades'
                 /\ result'.report.final_capital = capital'
                 /\ \A k \in 1..Len(closed_trades') :
                      TradesEnteredAt(closed_trades', closed_trades'[k].entry_ts) = 1
      ]_vars

\* C11 witness: a finished run that closed one position inside the loop and
\* force-closed another, at a price different from its entry, after the last
\* bar
C11_Witness ==
    /\ pc = "done"
    /\ result.kind = "report"
    /\ Len(open_positions) > 0
    /\ \E a, b \in 1..Len(result.trades) :
        /\ result.trades[a].exit_reason # <<"backtest_end">>
        /\ result.trades[b].exit_reason = <<"backtest_end">>
        /\ result.trades[b].exit_ts = candles[Len(candles)].ts
        /\ result.trades[b].pnl # 0

\* C12: a call with fewer than 100 candles, or with no requested id in the
\* registry, ends with a result that has an error field and no report, and
\* not with an exception; a call with enough candles and at least one known
\* id does not end with an error result, runs the known evaluators only and
\* names only those in its signals and trades.
C12_StructuredErrors ==
    /\ pc = "done" =>
        /\ (Len(candles) < 100 \/ Strategies = <<>>)
           => /\ ~IsRaise(result)
              /\ result.kind = "error"
              /\ "error" \in DOMAIN result
              /\ "report" \notin DOMAIN result
              /\ closed_trades = <<>>
              /\ equity_curve = <<>>
        /\ (Len(candles) >= 100 /\ Strategies # <<>>)
           => result.kind # "error"
    /\ pc = "loop" =>
        /\ Len(candles) >= 100
        /\ Strategies # <<>>
    /\ Running =>
        /\ \A k \in 1..Len(Strategies) :
             /\ Strategies[k] \in strategy_registry
             /\ \E m \in 1..Len(strategy_ids) : strategy_ids[m] = Strategies[k]
        /\ \A m \in 1..Len(strategy_ids) :
             strategy_ids[m] \in strategy_registry
             => \E k \in 1..Len(Strategies) : Strategies[k] = strategy_ids[m]
        /\ \A k \in 1..Len(all_signals) :
             \A m \in 1..Len(all_signals[k].strategies) :
                \E n \in 1..Len(Strategies) :
                    Strategies[n] = all_signals[k].strategies[m]

\* C12 witness: a call with 99 candles and a known evaluator has returned the
\* error result
C12_Witness ==
    /\ pc = "done"
    /\ Len(candles) = 99
    /\ Strategies # <<>>
    /\ result.kind = "error"

\* C13: every closed trade with exit_reason stop_loss left at or below its
\* entry price when long and at or above it when short.
C13_StopLossOnLosingSide ==
    \A k \in 1..Len(closed_trades) :
        closed_trades[k].exit_reason = <<"stop_loss">>
        => IF closed_trades[k].direction = "long"
           THEN RatLeq(closed_trades[k].exit_price, closed_trades[k].entry_price)
           ELSE RatLeq(closed_trades[k].entry_price, closed_trades[k].exit_price)

\* the closed trades that left on the ROI take-profit
RoiExits == {k \in 1..Len(closed_trades) : closed_trades[k].exit_reason[1] = "roi_"}

----------------------------------------------------------------------------
(* Properties of the report (specification Spec) *)

\* the fields of the report of _calc_report
ReportFields ==
    {"initial_capital", "final_capital", "total_return_pct", "total_trades",
     "winning_trades", "losing_trades", "win_rate", "profit_factor",
     "max_drawdown_pct", "sharpe_ratio", "avg_win_pct", "avg_loss_pct",
     "best_trade_pct", "worst_trade_pct", "buy_hold_return_pct", "tag_stats"}

\* the indices of the trades entered under `tag`
TradesTagged(trades, tag) ==
    {k \in 1..Len(trades) : trades[k].enter_tag = tag}

\* the pnl of the trades with an index in ks
PnlOver(trades, ks) ==
    SumRange([k \in 1..Len(trades) |-> IF k \in ks THEN trades[k].pnl ELSE 0],
             1, Len(trades))

\* C18: every result of run_backtest that is not an error carries a report
\* with every field, whatever the number of closed trades: among them
\* buy_hold_return_pct = (last close - first close) / first close * 100 and
\* tag_stats with, for every entry tag, the count, the wins and the total pnl
\* of its trades.
C18_ReportComplete ==
    (pc = "done" /\ result.kind = "report") =>
        /\ ReportFields \subseteq DOMAIN result.report
        /\ result.report.buy_hold_return_pct =
               PctRound(Rat(candles[Len(candles)].close - candles[1].close,
                            candles[1].close))
        /\ DOMAIN result.report.tag_stats =
               {result.trades[k].enter_tag : k \in 1..Len(result.trades)}
        /\ \A tag \in DOMAIN result.report.tag_stats :
            LET ks == TradesTagged(result.trades, tag)
                stats == result.report.tag_stats[tag]
            IN  /\ stats.count = Cardinality(ks)
                /\ stats.wins = Cardinality({k \in ks : result.trades[k].pnl > 0})
                /\ stats.total_pnl = PnlOver(result.trades, ks)

\* the indices of the winning and of the losing trades, as _calc_report
\* counts them
WinningTrades(trades) == {k \in 1..Len(trades) : trades[k].pnl > 0}

LosingTrades(trades) == {k \in 1..Len(trades) : trades[k].pnl <= 0}

\* C19: profit_factor is unbounded when there are winning trades and no
\* losing trade, 0 when there are neither winning nor losing trades, and
\* otherwise the gross winning pnl divided by the absolute gross losing pnl
\* (rounded to two decimals).
C19_ProfitFactor ==
    (pc = "done" /\ result.kind = "report") =>
        LET win == WinningTrades(result.trades)
            lose == LosingTrades(result.trades)
            gross_win == PnlOver(result.trades, win)
            gross_loss == Abs(PnlOver(result.trades, lose))
            profit_factor == result.report.profit_factor
        IN  IF lose = {}
            THEN IF win # {} THEN profit_factor.inf
                 ELSE profit_factor = [inf |-> FALSE, value |-> 0]
            ELSE /\ gross_loss # 0
                 /\ profit_factor =
                        [inf |-> FALSE,
                         value |-> RatRound(Rat(gross_win * 100, gross_loss))]

----------------------------------------------------------------------------
(* Properties of _get_roi_target (specification SpecRoi) *)

\* the keys of the table that are <= bars_held as integers
KeysReached == {key \in DOMAIN roi_table : int_of(key) <= arg_index}

\* C15: the result is the value of the key that is largest, as an integer,
\* among the keys <= bars_held, and no target when there is no such key;
\* with {0: 0.05, 30: 0.03, 60: 0.01} it is 0.05 for 0 and 29, 0.03 for 30
\* and 0.01 for 60.
C15_LargestKeyNotAbove ==
    pc = "done" =>
        /\ KeysReached = {} => result = NoTarget
        /\ KeysReached # {} =>
             \E key \in KeysReached :
                /\ \A other \in KeysReached : int_of(other) <= int_of(key)
                /\ result = roi_table[key]
        /\ roi_table = DecayingRoi =>
             /\ arg_index \in {0, 29} => result = <<1, 20>>
             /\ arg_index = 30 => result = <<3, 100>>
             /\ arg_index = 60 => result = <<1, 100>>

\* C15 witness: the table {"5", "30", "100"} and bars_held = 30 give the
\* target of "30"
C15_Witness ==
    /\ pc = "done"
    /\ DOMAIN roi_table = {<<5>>, <<3, 0>>, <<1, 0, 0>>}
    /\ arg_index = 30
    /\ result = <<3, 100>>

----------------------------------------------------------------------------
(* Properties of scan_pair (specifications SpecScan and SpecCooldown) *)

\* a step of scan_pair that evaluated the enabled strategies on candles'
ScanCallStep ==
    /\ pc = "scan"
    /\ now' = now
    /\ Len(strategy_ids) > 0
    /\ candles' \in ScanHistories
    /\ Len(candles') >= scan_max_startup(strategies_of(strategy_ids)) + 10

\* the moving average the trend filter compares the newest close with
TrendMa(cs, stg) ==
    calc_sma(closes_of(cs), DictGet(stg, "trend_ma_period", DefaultTrendMaPeriod))

\* the resonance of the raw signals disagrees with the side of the moving
\* average the newest close is on
AgainstTrend(r, cs, stg) ==
    /\ ~IsNone(r)
    /\ \/ r.direction = "long"
          /\ ~RatLt(TrendMa(cs, stg), RatOf(cs[Len(cs)].close))
       \/ r.direction = "short"
          /\ ~RatLt(RatOf(cs[Len(cs)].close), TrendMa(cs, stg))

\* C16: with the trend filter enabled and the moving average computable from
\* the candles of the call, a call whose raw signals of the newest bar
\* resonate long while the close is not above the moving average, or short
\* while the close is not below it, returns no signal and records none.
C16_TrendFilterDrops ==
    [][(/\ ScanCallStep
        /\ DictGet(settings, "trend_filter", FALSE)
        /\ Len(candles') >= DictGet(settings, "trend_ma_period",
                                    DefaultTrendMaPeriod)
        /\ AgainstTrend(calc_resonance(scan_raw(strategy_ids, candles')),
                        candles', settings))
       => (result' = None /\ db_signals' = db_signals)]_vars

\* a row of the instrument and direction recorded less than 6 hours before
\* `clock`
RecordedWithin(rows, inst, direction, clock) ==
    \E k \in 1..Len(rows) :
        /\ rows[k].inst_id = inst
        /\ rows[k].direction = direction
        /\ clock - rows[k].created_at < CooldownHours

\* no two rows of one instrument and one direction are less than 6 hours apart
NoTwoWithinCooldown ==
    \A j \in 1..Len(db_signals) : \A k \in (j + 1)..Len(db_signals) :
        (/\ db_signals[j].inst_id = db_signals[k].inst_id
         /\ db_signals[j].direction = db_signals[k].direction)
        => db_signals[k].created_at - db_signals[j].created_at >= CooldownHours

\* C17: over sequential calls of scan_pair, a call whose new signal has the
\* direction of a signal recorded for the same instrument less than 6 hours
\* earlier returns None and records nothing, and no two signals of one
\* direction and one instrument are ever recorded less than 6 hours apart,
\* although each call reads only the 5 most recent rows of the instrument.
C17_CooldownDrops ==
    [][/\ (/\ ScanCallStep
           /\ ~IsNone(resonance')
           /\ RecordedWithin(db_signals, inst_id', resonance'.direction, now))
          => (result' = None /\ db_signals' = db_signals)
       /\ NoTwoWithinCooldown']_vars

\* C17 witness: a call for an instrument with more than 5 rows is dropped
\* because of a row recorded less than 6 hours earlier, after signals of the
\* same direction were recorded for that instrument exactly 6 hours apart
C17_Witness ==
    /\ Len(rows_of(db_signals, inst_id)) > RecentLimit
    /\ ~IsNone(resonance)
    /\ result = None
    /\ \E k \in 1..Len(db_signals) :
        /\ db_signals[k].inst_id = inst_id
        /\ db_signals[k].direction = resonance.direction
        /\ now - db_signals[k].created_at < CooldownHours
        /\ \E j \in 1..(k - 1) :
            /\ db_signals[j].inst_id = inst_id
            /\ db_signals[j].direction = resonance.direction
            /\ db_signals[k].created_at - db_signals[j].created_at = CooldownHours

----------------------------------------------------------------------------
(* Properties of the drawdown loop (specification SpecDrawdown) *)

\* C20: the maximum drawdown never decreases when the curve is extended: the
\* value after one more point is at least the value before it, hence
\* max_drawdown(E + X) >= max_drawdown(E) for every curve E and every
\* extension X; the value after the first i points is the maximum drawdown
\* of the curve of these points, rounded or not.
C20_DrawdownMonotone ==
    [][pc = "drawdown" =>
        /\ RatLeq(result.max_drawdown_pct, result'.max_drawdown_pct)
        /\ PctRound(result.max_drawdown_pct) <= PctRound(result'.max_drawdown_pct)
        /\ result'.max_drawdown_pct =
               max_drawdown_of(SubSeq(equity_curve, 1, i'), initial_capital)]_vars

\* C20 witness: the equity fell below the running peak and then rose to a new
\* peak above the initial capital, so that the last point has no drawdown
\* and the maximum drawdown is that of an earlier point
C20_Witness ==
    /\ pc = "drawdown"
    /\ i >= 3
    /\ RatLt(RatOf(0), result.max_drawdown_pct)
    /\ equity_curve[i].equity = result.peak
    /\ result.peak > initial_capital
    /\ initial_capital > 0

----------------------------------------------------------------------------
(* Properties of the evaluators on the histories of their tests (SpecEval) *)

\* C22: the MA breakout evaluator with default parameters, at the last bar
\* (index 99) of the 100-bar history whose bar before the last 3 closes below
\* the moving average and whose last 3 bars close above it, returns a long
\* signal tagged ma90_breakout_up with stop_loss < entry_price; on the
\* mirrored history it returns a short signal tagged ma90_breakout_down with
\* stop_loss > entry_price.
C22_Ma90Breakout ==
    (pc = "done" /\ strategy_ids = <<"ma90">> /\ arg_index = 99) =>
        /\ candles = Ma90UpCandles =>
            /\ sig.kind = "signal"
            /\ sig.direction = "long"
            /\ sig.enter_tag = "ma90_breakout_up"
            /\ RatLt(sig.stop_loss, sig.entry_price)
        /\ candles = Ma90DownCandles =>
            /\ sig.kind = "signal"
            /\ sig.direction = "short"
            /\ sig.enter_tag = "ma90_breakout_down"
            /\ RatLt(sig.entry_price, sig.stop_loss)

----------------------------------------------------------------------------
(* Properties of run_backtest on particular histories (specification Spec) *)

\* C21: on 100 flat candles every evaluator returns no signal at every index
\* of the history, and run_backtest returns a report, not an error, with
\* total_trades = 0 and total_return_pct = 0 and the capital unchanged.
C21_FlatCandlesNoSignal ==
    candles = FlatCandles =>
        /\ all_signals = <<>>
        /\ open_positions = <<>> /\ closed_trades = <<>>
        /\ IsNone(pending_signal)
        /\ pc = "loop" => capital = initial_capital
        /\ pc = "done" =>
            /\ result.kind = "report"
            /\ result.report.total_trades = 0
            /\ result.report.total_return_pct = 0
            /\ result.report.final_capital = initial_capital
            /\ capital = initial_capital
            /\ \A k \in 1..Len(result.equity_curve) :
                    result.equity_curve[k].equity = initial_capital
            /\ \A sid \in strategy_registry, index \in 0..(Len(candles) - 1),
                  difTop, difBottom \in BOOLEAN :
                    IsNone(check_signal(sid, candles, index, difTop, difBottom))

\* C21 witness: the run over the flat candles with pin_bar, scanned from bar
\* 20 on, has returned its report
C21_Witness ==
    /\ candles = FlatCandles
    /\ strategy_ids = <<"pin_bar">>
    /\ pc = "done"
    /\ result.kind = "report"
    /\ Len(result.equity_curve) = 100

----------------------------------------------------------------------------
(* Properties of the exit evaluation and of the entry step (Spec) *)

\* the trades closed by the step
NewTrades ==
    SubSeq(closed_trades', Len(closed_trades) + 1, Len(closed_trades'))

\* the low of the bar is at or below the stop of a long, the high at or above
\* the stop of a short
StopReached(pos, current) ==
    IF pos.direction = "long" THEN RatLeq(RatOf(current.low), pos.stop_loss)
    ELSE RatLeq(pos.stop_loss, RatOf(current.high))

\* C23: in the exit evaluation of a bar, a position held after the entry
\* step of the bar (the position opened on this very bar included) is closed
\* with reason stop_loss iff the bar's low <= its stop (long) or the bar's
\* high >= its stop (short), and then at the stop price; a position is closed
\* by the ROI take-profit only if its stop was not touched on the bar, and
\* then at the close.
C23_StopBeforeRoi ==
    [][(pc = "loop" /\ i < Len(candles) /\ i' = i + 1) =>
        \A k \in 1..Len(AfterEntry) :
            LET pos == AfterEntry[k]
                current == At(candles, i)
                mine == {m \in 1..Len(NewTrades) :
                            NewTrades[m].entry_ts = pos.entry_ts}
            IN  /\ StopReached(pos, current) <=>
                     \E m \in mine : NewTrades[m].exit_reason = <<"stop_loss">>
                /\ \A m \in mine :
                     IF NewTrades[m].exit_reason = <<"stop_loss">>
                     THEN NewTrades[m].exit_price = pos.stop_loss
                     ELSE /\ ~StopReached(pos, current)
                          /\ NewTrades[m].exit_reason[1] = "roi_"
                          /\ NewTrades[m].exit_price = RatOf(current.close)
      ]_vars

\* C23 witness: with an ROI table, a position was stopped on the bar it was
\* opened, at its stop, although the close of that bar was more than 5 % in
\* its favour, and another position left by the ROI take-profit
C23_Witness ==
    /\ DOMAIN roi_table # {}
    /\ \E k \in 1..Len(closed_trades) :
        LET trade == closed_trades[k]
            bar == candles[trade.exit_ts \div 60]
        IN  /\ trade.exit_reason = <<"stop_loss">>
            /\ trade.entry_ts = trade.exit_ts
            /\ bar.ts = trade.exit_ts
            /\ RatLeq(<<1, 20>>,
                      pnl_pct_of(trade.direction, trade.entry_price,
                                 RatOf(bar.close)))
    /\ \E k \in 1..Len(closed_trades) : closed_trades[k].exit_reason[1] = "roi_"

\* the percentage configured for the tier of a strength: the tier of 3 for a
\* strength above 3, 3 % for a tier the rules do not mention
TierPct(rules, strength) ==
    LET key == IF strength = 1 THEN "strength_1_pct"
               ELSE IF strength = 2 THEN "strength_2_pct"
               ELSE "strength_3_pct"
    IN  IF key \in DOMAIN rules THEN rules[key] ELSE 3

\* the positions and trades entered at ts after the step
EnteredAt(ts) ==
    {open_positions'[k].position_size :
        k \in {m \in 1..Len(open_positions') : open_positions'[m].entry_ts = ts}}
    \cup {NewTrades[k].position_size :
            k \in {m \in 1..Len(NewTrades) : NewTrades[m].entry_ts = ts}}

\* what the trades closed by the step give back
NewCredit ==
    SumRange([k \in 1..Len(NewTrades) |->
                 NewTrades[k].position_size + NewTrades[k].pnl], 1, Len(NewTrades))

\* C24: when a pending signal executes, the position size is initial_capital
\* times the percentage of the signal's strength tier (tier 3 above 3),
\* whatever the capital available; if that takes the total open notional over
\* the cap, the size is exactly the remaining headroom; with no headroom the
\* signal is dropped (no position, capital not debited); otherwise capital is
\* debited by exactly the position size.
C24_PositionSizing ==
    [][(/\ pc = "loop" /\ i < Len(candles) /\ i' = i + 1
        /\ i > 0 /\ ~IsNone(pending_signal)) =>
        LET current == At(candles, i)
            wanted == (initial_capital * TierPct(position_rules,
                                                 pending_signal.strength)) \div 100
            max_allowed ==
                (initial_capital * position_rules["max_total_pct"]) \div 100
            headroom == max_allowed - total_used_of(open_positions)
            size == IF wanted <= headroom THEN wanted
                    ELSE IF headroom > 0 THEN headroom ELSE 0
        IN  /\ EnteredAt(current.ts) = IF size > 0 THEN {size} ELSE {}
            /\ capital' = capital - size + NewCredit
      ]_vars

\* C24 witness: the signal buffered at the bar before the last one met a
\* budget used to the cap and was dropped: no position and no trade was
\* entered at the last bar
C24_Witness ==
    /\ pc = "loop"
    /\ i > 1
    /\ Len(all_signals) > 0
    /\ all_signals[Len(all_signals)].ts = BarTs(i - 2)
    /\ \A k \in 1..Len(open_positions) : open_positions[k].entry_index # i - 1
    /\ \A k \in 1..Len(closed_trades) : closed_trades[k].entry_ts # BarTs(i - 1)
    /\ total_used_of(open_positions) * 100
         = initial_capital * position_rules["max_total_pct"]

\* the fields a closed trade takes over from its position
SameEntry(trade, pos) ==
    /\ trade.entry_ts = pos.entry_ts
    /\ trade.entry_price = pos.entry_price
    /\ trade.position_size = pos.position_size
    /\ trade.direction = pos.direction
    /\ trade.leverage = pos.leverage

\* C25: an open position is never modified: after every step each open
\* position is a position that was open before, unchanged, or the position
\* opened by the step, whose stop_loss and initial_stop_loss are the
\* stop_loss of the signal that opened it; so at every bar stop_loss =
\* initial_stop_loss, and entry_price, position_size, direction and leverage
\* are those of the entry until the position becomes a closed trade, which
\* carries them over.
C25_PositionsUnmodified ==
    [][pc = "loop" =>
        /\ \A k \in 1..Len(open_positions') :
            LET pos == open_positions'[k]
            IN  /\ pos.stop_loss = pos.initial_stop_loss
                /\ \/ \E m \in 1..Len(open_positions) : open_positions[m] = pos
                   \/ /\ i < Len(candles)
                      /\ ~IsNone(pending_signal)
                      /\ pos.entry_index = i
                      /\ pos.entry_ts = At(candles, i).ts
                      /\ pos.stop_loss = pending_signal.stop_loss
                      /\ pos.direction = pending_signal.direction
                      /\ pos.entry_price = RatOf(At(candles, i).open)
                      /\ pos.leverage = leverage
        /\ \A k \in 1..Len(NewTrades) :
            \/ \E m \in 1..Len(open_positions) :
                    SameEntry(NewTrades[k], open_positions[m])
            \/ /\ i < Len(candles)
               /\ ~IsNone(pending_signal)
               /\ NewTrades[k].entry_ts = At(candles, i).ts
               /\ NewTrades[k].direction = pending_signal.direction
               /\ NewTrades[k].entry_price = RatOf(At(candles, i).open)
               /\ NewTrades[k].leverage = leverage
               /\ NewTrades[k].exit_reason = <<"stop_loss">> =>
                      NewTrades[k].exit_price = pending_signal.stop_loss
      ]_vars

\* C25 witness: a long position has been held for 10 bars, the last close is
\* more than 6 above its stop (twice the wick of the pin bar that set it),
\* and its stop is still the stop of the signal recorded at the bar before
\* its entry
C25_Witness ==
    /\ pc = "loop"
    /\ \E k \in 1..Len(open_positions) :
        LET pos == open_positions[k]
            last == RatOf(At(candles, i - 1).close)
        IN  /\ i - pos.entry_index >= 10
            /\ pos.direction = "long"
            /\ RatLt(RatOf(2 * 3), <<last[1] - pos.stop_loss[1], 1>>)
            /\ pos.stop_loss[2] = 1
            /\ \E m \in 1..Len(all_signals) :
                /\ all_signals[m].ts = pos.entry_ts - 60
                /\ all_signals[m].stop_loss = pos.stop_loss

----------------------------------------------------------------------------
(* Properties of the capital and of the equity curve (Spec) *)

\* the sum of pnl over trades
PnlSum(trades) ==
    SumRange([k \in 1..Len(trades) |-> trades[k].pnl], 1, Len(trades))

\* C26: capital ledger conservation: at the end of every bar, available
\* capital + the sum of position_size over the open positions =
\* initial_capital + the sum of pnl over the trades closed so far; after the
\* final force-close, final capital = initial_capital + the sum of pnl over
\* all closed trades.
C26_LedgerConservation ==
    /\ pc = "loop" =>
         capital + total_used_of(open_positions)
            = initial_capital + PnlSum(closed_trades)
    /\ (pc = "done" /\ result.kind = "report") =>
         /\ capital = initial_capital + PnlSum(result.trades)
         /\ result.report.final_capital = capital

\* C26 witness: at the end of a bar a position is open and a winning and a
\* losing trade have been closed
C26_Witness ==
    /\ pc = "loop"
    /\ Len(open_positions) > 0
    /\ \E k \in 1..Len(closed_trades) : closed_trades[k].pnl > 0
    /\ \E k \in 1..Len(closed_trades) : closed_trades[k].pnl < 0
    /\ capital # initial_capital - total_used_of(open_positions)

\* the trades closed by the final force-close
ForceClosed(trades) ==
    {k \in 1..Len(trades) : trades[k].exit_reason = <<"backtest_end">>}

\* C27: in every successful run the last point of the equity curve equals
\* the report's final capital, up to the rounding to 2 decimals of the equity
\* and of the pnl of each position force-closed at the last close (a cent
\* each); and at every bar that ends with no open position the equity point
\* equals the available capital.
C27_EquityMeetsCapital ==
    /\ (pc = "loop" /\ i > 0 /\ open_positions = <<>>) =>
         equity_curve[Len(equity_curve)].equity = capital
    /\ (pc = "done" /\ result.kind = "report") =>
         LET curve == result.equity_curve
             last == curve[Len(curve)].equity
             closed == Cardinality(ForceClosed(result.trades))
         IN  /\ Abs(last - result.report.final_capital) <= closed
             /\ closed = 0 => last = result.report.final_capital

\* C27 witness: a run ended with a position force-closed at a profit or a
\* loss, after a trade closed inside the loop had changed the capital
C27_Witness ==
    /\ pc = "done"
    /\ result.kind = "report"
    /\ \E k \in ForceClosed(result.trades) : result.trades[k].pnl # 0
    /\ \E k \in 1..Len(result.trades) :
        /\ k \notin ForceClosed(result.trades)
        /\ result.trades[k].pnl # 0
    /\ result.report.final_capital # initial_capital

----------------------------------------------------------------------------
(* Properties of the arguments of run_backtest (Spec) *)

\* C28: run_backtest accepts any position_rules mapping, the empty mapping
\* included: a tier percentage or max_total_pct that is absent falls back to
\* a default, and a run in which a pending signal executes completes with a
\* report instead of raising.
C28_AnyRulesAccepted ==
    (pc = "done" /\ Len(all_signals) > 0) =>
        /\ ~IsRaise(result)
        /\ result.kind = "report"

----------------------------------------------------------------------------
(* Properties of confirm_signal and skip_signal (SpecOrder) *)

\* the market orders placed for the signal in `placed`
OrdersFor(placed, signal_id) ==
    {k \in 1..Len(placed) : placed[k].signal_id = signal_id}

\* C29: a recorded signal leads to at most one market order: once
\* execute_signal has placed the order and set the status to executed, no
\* later confirm request places a second order for the signal, and no request
\* places an order for a skipped signal.
C29_AtMostOneOrder ==
    [][\A k \in 1..Len(db_signals) :
        db_signals[k].status \in {"executed", "skipped"} =>
            OrdersFor(orders', db_signals[k].id) = OrdersFor(orders, db_signals[k].id)]_vars

----------------------------------------------------------------------------
(* Properties of interleaved scan_pair coroutines (SpecTasks) *)

\* C30: the cooldown holds when two scan_pair invocations for the same
\* instrument on distinct timeframes interleave at their awaits: no two rows
\* of the instrument recorded for distinct timeframes have the same direction
\* and creation times less than 6 hours apart.
C30_CooldownUnderInterleaving ==
    \A j \in 1..Len(db_signals) :
        \A k \in (j + 1)..Len(db_signals) :
            (/\ db_signals[j].inst_id = db_signals[k].inst_id
             /\ db_signals[j].direction = db_signals[k].direction
             /\ db_signals[j].bar # db_signals[k].bar)
            => db_signals[k].created_at - db_signals[j].created_at >= CooldownHours

====
